---- MODULE Spec2Model ----
(***************************************************************************)
(* A model of the Lambda handlers and scripts of the RAGChatbot            *)
(* repository: the agentic routing function, the chatbot handlers with     *)
(* their DynamoDB conversation history, the test-case generator, the       *)
(* embedding retry loop of the preprocessing scripts and the defect agent. *)
(*                                                                         *)
(* External services are modelled by their interface as the code uses it:  *)
(* every client call either returns or raises; DynamoDB get_item, put_item *)
(* and scan act atomically on the table; a Pinecone query returns at most  *)
(* top_k vectors of the index in non-increasing score order.               *)
(*                                                                         *)
(* Texts.  A string is a sequence of pieces.  A piece is either the        *)
(* separator "\n---\n" (Sep) or a record [id, len]: the first len          *)
(* characters of the text named id, len > 0.  The empty string is << >>.   *)
(* Scores are cosine similarities in hundredths (0.4 is 40).               *)
(***************************************************************************)
EXTENDS Integers, Sequences, FiniteSets, TLC

VARIABLES
    rt,            \* ai_agent_route applied to a list of matches
    handler,       \* the handler that is deployed
    inv,           \* per Lambda instance: the invocation in progress
    historyTable,  \* DynamoDB table rag_chatbot_history: session_id -> history
    pineIndex,     \* Pinecone index rag-chatbot-index: a set of vectors
    committed,     \* per session: the turns of the invocations that returned 200
    version,       \* per session: the number of put_item calls on its item
    started,       \* the number of invocations started so far
    gen,           \* the test-case generator invocation in progress
    genTable,      \* DynamoDB table llm_testcasegenerator_history
    genIds,        \* the number of uuid4 identifiers handed out
    emb,           \* one get_embedding call of a preprocessing script
    dfct,          \* the defect agent invocation in progress
    defectTable,   \* DynamoDB defect table: a set of items
    clock,         \* the wall clock read by the defect agent
    pre,           \* the run of a preprocessing handler in progress
    bucket,        \* the S3 bucket of documents: key -> version (0: no object)
    osIndex,       \* the OpenSearch index: a set of chunk documents
    heal,          \* one run of the self-healing Selenium script
    kbi,           \* one run of the kb_index.json preprocessing script
    proj,          \* the project-context preprocessing of the defect agent
    pine,          \* the Pinecone preprocessing, chunk by chunk
    loc            \* one model reply on its way from the healing Lambda to the re-run

routeVars  == <<rt>>
chatVars   == <<handler, inv, historyTable, pineIndex, committed, version, started>>
genVars    == <<gen, genTable, genIds>>
embVars    == <<emb>>
defectVars == <<dfct, defectTable, clock>>
preVars    == <<pre, bucket, osIndex>>
healVars   == <<heal>>
kbVars     == <<kbi>>
moreVars   == <<proj, pine, loc>>
extVars    == <<preVars, healVars, kbVars, moreVars>>
vars == <<rt, handler, inv, historyTable, pineIndex, committed, version, started,
          gen, genTable, genIds, emb, dfct, defectTable, clock,
          pre, bucket, osIndex, heal, kbi, proj, pine, loc>>

(***************************************************************************)
(* Texts                                                                   *)
(***************************************************************************)
Min(a, b) == IF a < b THEN a ELSE b

Sep == [id |-> "\n---\n", len |-> 5]

\* Python's None
None == [id |-> "<None>", len |-> 0]

Text(id, len) == [id |-> id, len |-> len]

\* a literal piece of a format string
Lit(s, n) == [id |-> s, len |-> n]

\* the string holding text t: empty when t has no characters
Str(t) == IF t.len = 0 THEN << >> ELSE <<t>>

\* Python truthiness of a str-or-None value
Truthy(t) == t # None /\ t.len > 0

\* t[:n]
Truncate(t, n) == [t EXCEPT !.len = Min(t.len, n)]

RECURSIVE Join(_)
\* "\n---\n".join(chunks)
Join(chunks) ==
    IF chunks = << >> THEN << >>
    ELSE IF Len(chunks) = 1 THEN Str(chunks[1])
    ELSE Str(chunks[1]) \o <<Sep>> \o Join(Tail(chunks))

(***************************************************************************)
(* ai_agent_route (src/src/ragchatbotlambda.py)                            *)
(***************************************************************************)
ScoreThreshold == 40
WeakThreshold == 20
TopK == 3

\* the accumulators of the loop before the first match
RouteStart ==
    [internal_chunks |-> << >>, web_chunks |-> << >>,
     best_internal |-> None, best_internal_score |-> 0]

\* one iteration of the loop body
RouteStep(acc, match, score_threshold) ==
    IF match.source = "web"
    THEN IF match.score >= score_threshold
         THEN [acc EXCEPT !.web_chunks = Append(@, match.chunk)]
         ELSE acc
    ELSE LET a1 == IF match.score >= score_threshold
                   THEN [acc EXCEPT !.internal_chunks = Append(@, match.chunk)]
                   ELSE acc
         IN  IF match.score > a1.best_internal_score
             THEN [a1 EXCEPT !.best_internal = match.chunk,
                             !.best_internal_score = match.score]
             ELSE a1

RECURSIVE RouteLoop(_, _, _)
RouteLoop(acc, matches, score_threshold) ==
    IF matches = << >> THEN acc
    ELSE RouteLoop(RouteStep(acc, Head(matches), score_threshold),
                   Tail(matches), score_threshold)

\* the decision with the weak internal match ranked below the web chunks
RouteDecideWebFirst(acc) ==
    IF acc.internal_chunks # << >>
    THEN [route |-> "internal", context |-> Join(acc.internal_chunks)]
    ELSE IF acc.web_chunks # << >>
    THEN [route |-> "web", context |-> Join(acc.web_chunks)]
    ELSE IF Truthy(acc.best_internal) /\ acc.best_internal_score > WeakThreshold
    THEN [route |-> "internal", context |-> Str(acc.best_internal)]
    ELSE [route |-> "none", context |-> << >>]

\* the agent logic after the loop
RouteDecide(acc) ==
    IF acc.internal_chunks # << >>
    THEN [route |-> "internal", context |-> Join(acc.internal_chunks)]
    ELSE IF Truthy(acc.best_internal) /\ acc.best_internal_score > WeakThreshold
    THEN [route |-> "internal", context |-> Str(acc.best_internal)]
    ELSE IF acc.web_chunks # << >>
    THEN [route |-> "web", context |-> Join(acc.web_chunks)]
    ELSE [route |-> "none", context |-> << >>]

ai_agent_route(matches, score_threshold) ==
    RouteDecide(RouteLoop(RouteStart, matches, score_threshold))

(***************************************************************************)
(* The inputs of ai_agent_route: lists of at most TopK matches.  A chunk   *)
(* of the knowledge base is never empty (is_valid_chunk of the             *)
(* preprocessing scripts); a cached web result may be.                     *)
(***************************************************************************)
RouteScores == {0, 20, 21, 39, 40, 41}
KbChunks == {Text("kb1", 400), Text("kb2", 120)}
WebChunks == {Text("snippets", 300), Text("snippets", 0)}

RouteMatches ==
    [score : RouteScores, chunk : KbChunks, source : {"doc.txt"}]
    \cup [score : RouteScores, chunk : WebChunks, source : {"web"}]

RouteInputs == UNION {[1..n -> RouteMatches] : n \in 0..TopK}

RouteIdle == [pc |-> "off", matches |-> << >>,
              result |-> [route |-> "", context |-> << >>]]

RouteInit ==
    /\ rt \in {[pc |-> "call", matches |-> ms,
                result |-> [route |-> "", context |-> << >>]] : ms \in RouteInputs}

\* agent_decision = ai_agent_route(prompt, result['matches'], score_threshold=0.4)
RouteCall ==
    /\ rt.pc = "call"
    /\ rt' = [rt EXCEPT !.pc = "done",
                        !.result = ai_agent_route(rt.matches, ScoreThreshold)]
    /\ UNCHANGED <<chatVars, genVars, embVars, defectVars, extVars>>

(***************************************************************************)
(* The chatbot handlers                                                    *)
(*   agentic   src/src/ragchatbotlambda.py                                 *)
(*   internal  src/RAGChatbots/Pinecone_Implementation/                    *)
(*             internalsearchchatbot.py (and src/src/internalsearch...)    *)
(*   external  src/RAGChatbots/Pinecone_Implementation/                    *)
(*             externalsearchchatbotlambda.py                              *)
(*   venvrag   src/venv/LambdaHandler/RAGChatbot/ragchatbotlambda.py       *)
(*   simple    src/venv/LambdaHandler/chatbotlambda.py                     *)
(* Every client call is one step; it returns or raises.  An exception      *)
(* raised outside the handler's try block escapes the handler.             *)
(***************************************************************************)
MaxInvocations == 2
MAX_EMBEDDING_LENGTH == 2048
MAX_HISTORY == 10

Procs == {1, 2}
Handlers == {"agentic", "internal", "external", "venvrag", "simple"}
Sessions == {"default", "s1"}
Missing == [id |-> "<missing>", len |-> 0]
Prompts == {Text("q1", 12), Text("q2", 3000)}
Responses == {"r1", "r2"}
Errors == {"boom"}
ChatScores == {10, 30, 50}
ChatKb == {Text("kb1", 400)}

Events ==
    [prompt : {Missing, Text("", 0)} \cup Prompts, session_id : {"<missing>", "s1"}]

\* event.get(key, default)
Get(value, missing, default) == IF value = missing THEN default ELSE value

\* google_search(query): the text it returns for each outcome of requests.get
google_search(outcome) ==
    CASE outcome = "exception"  -> Text("Error occurred during Google Search.", 36)
      [] outcome = "http_error" -> Text("Google Search API error: ...", 60)
      [] outcome = "no_items"   -> Text("No relevant results found on the web.", 37)
      [] OTHER                  -> Text("snippets", 3000)

SearchOutcomes == {"exception", "http_error", "no_items", "items"}

\* the vector the agentic handler upserts for a web result
WebVector(truncated_context) ==
    [id |-> <<"web_", truncated_context>>, chunk |-> truncated_context, source |-> "web"]

\* the vector the preprocessing script stores for a knowledge-base chunk
KbVector(chunk) ==
    [id |-> <<"doc.txt:", chunk>>, chunk |-> chunk, source |-> "doc.txt"]

\* index.upsert(vectors): a vector replaces the stored vector of the same id
PineUpsert(idx, v) == {w \in idx : w.id # v.id} \cup {v}

\* index.query(top_k=3, include_metadata=True): the lists of matches the index
\* can return, best score first
PineQuery(idx) ==
    LET n == Min(TopK, Cardinality(idx))
    IN  {ms \in [1..n -> [score : ChatScores, v : idx]] :
            /\ \A i, j \in 1..n : i < j => ms[i].score >= ms[j].score
            /\ \A i, j \in 1..n : i # j => ms[i].v # ms[j].v}

MatchOf(m) == [score |-> m.score, chunk |-> m.v.chunk, source |-> m.v.source]

MatchList(ms) == [i \in DOMAIN ms |-> MatchOf(ms[i])]

\* [match['metadata']['chunk'] for match in matches]
ChunksOf(matches) == [i \in DOMAIN matches |-> matches[i].chunk]

Turn(prompt, response_text) == [user |-> prompt, bot |-> response_text]

NoBody == [none |-> TRUE]

IdleInv ==
    [pc |-> "idle", prompt |-> Text("", 0), session_id |-> "default",
     agent_route |-> "", route |-> "", kb_context |-> << >>,
     search_result |-> Text("", 0), truncated_context |-> Text("", 0),
     upserted |-> << >>, history_read |-> << >>, history |-> << >>, response_text |-> "",
     calls |-> << >>, status |-> 0, body |-> NoBody, raised |-> "",
     escaped |-> FALSE, readVer |-> 0, wroteVer |-> 0, failed |-> << >>,
     history_text |-> << >>]

Running(p) == inv[p].pc \notin {"idle", "done"}

\* the handler's first client call
FirstCall(h) ==
    CASE h \in {"agentic", "internal"} -> "embed"
      [] h = "external" -> "search"
      [] h = "venvrag" -> "s3get"
      [] OTHER -> "claude"

\* whether the handler tests the prompt before its first call
ChecksPrompt(h) == h \in {"agentic", "internal", "external"}

\* an exception raised by call outside the try block: it leaves the handler
Escape(p, call, e) ==
    inv' = [inv EXCEPT ![p] = [@ EXCEPT !.pc = "done", !.calls = Append(@, call),
                                        !.raised = e, !.escaped = TRUE,
                                        !.failed = Append(@, call)]]

\* an exception raised by call inside the try block: except Exception as e
Caught(p, call, e) ==
    inv' = [inv EXCEPT ![p] = [@ EXCEPT !.pc = "done", !.calls = Append(@, call),
                                        !.raised = e, !.status = 500,
                                        !.body = [error |-> e],
                                        !.failed = Append(@, call)]]

\* the call returned: the handler goes on with the fields in upd
Returned(p, call, pc, upd) ==
    inv' = [inv EXCEPT ![p] = [upd EXCEPT !.pc = pc, !.calls = Append(inv[p].calls, call)]]

\* lambda_handler up to its first client call
Start(p, events) ==
    /\ ~Running(p)
    /\ started < MaxInvocations
    /\ \E ev \in events :
         LET prompt == Get(ev.prompt, Missing, Text("", 0))
             session_id == Get(ev.session_id, "<missing>", "default")
             fresh == [IdleInv EXCEPT !.prompt = prompt, !.session_id = session_id]
         IN  inv' = [inv EXCEPT ![p] =
                 IF ChecksPrompt(handler) /\ prompt.len = 0
                 THEN [fresh EXCEPT !.pc = "done", !.status = 400,
                                    !.body = [error |-> "No prompt provided"]]
                 ELSE [fresh EXCEPT !.pc = FirstCall(handler)]]
    /\ started' = started + 1
    /\ UNCHANGED <<handler, historyTable, pineIndex, committed, version>>
    /\ UNCHANGED <<routeVars, genVars, embVars, defectVars, extVars>>

ChatFrame ==
    UNCHANGED <<handler, started, routeVars, genVars, embVars, defectVars, extVars>>

\* s3.get_object(Bucket=bucket, Key="kb_index.json") of the venv handler
S3Get(p) ==
    /\ inv[p].pc = "s3get"
    /\ \/ Returned(p, "s3_get", "embed", inv[p])
       \/ \E e \in Errors : Escape(p, "s3_get", e)
    /\ UNCHANGED <<historyTable, pineIndex, committed, version>>
    /\ ChatFrame

\* the contexts the venv handler can build from kb_index.json: its top chunks
\* by cosine similarity, best first
KbIndexContexts ==
    {Join(cs) : cs \in {c \in [1..Min(TopK, Cardinality(ChatKb)) -> ChatKb] :
                            \A i, j \in DOMAIN c : i # j => c[i] # c[j]}}

\* get_embedding(prompt, bedrock) / bedrock.invoke_model(cohere.embed-english-v3)
Embed(p) ==
    /\ inv[p].pc = "embed"
    /\ \/ IF handler = "venvrag"
          THEN \E ctx \in KbIndexContexts :
                  Returned(p, "embed", "get_history", [inv[p] EXCEPT !.kb_context = ctx])
          ELSE Returned(p, "embed", "query", inv[p])
       \/ \E e \in Errors : Escape(p, "embed", e)
    /\ UNCHANGED <<historyTable, pineIndex, committed, version>>
    /\ ChatFrame

\* index.query(...) and what the handler makes of the matches
Query(p) ==
    /\ inv[p].pc = "query"
    /\ \/ \E ms \in PineQuery(pineIndex) :
            LET matches == MatchList(ms)
                d == ai_agent_route(matches, ScoreThreshold)
            IN  IF handler = "agentic"
                THEN Returned(p, "query",
                              IF d.route = "none" THEN "search" ELSE "get_history",
                              [inv[p] EXCEPT !.agent_route = d.route, !.route = d.route,
                                             !.kb_context = d.context])
                ELSE Returned(p, "query", "get_history",
                              [inv[p] EXCEPT !.kb_context = Join(ChunksOf(matches))])
       \/ \E e \in Errors : Escape(p, "query", e)
    /\ UNCHANGED <<historyTable, pineIndex, committed, version>>
    /\ ChatFrame

\* kb_context = google_search(prompt); truncated_context = kb_context[:2048];
\* a request that raised or was answered with another status than 200 is
\* replaced by the text google_search returns for it
Search(p, outcomes) ==
    /\ inv[p].pc = "search"
    /\ \E o \in outcomes :
         LET r == google_search(o)
             t == Truncate(r, MAX_EMBEDDING_LENGTH)
             i == [inv[p] EXCEPT !.failed = IF o \in {"exception", "http_error"}
                                           THEN Append(@, "google_search") ELSE @]
         IN  IF handler = "agentic"
             THEN Returned(p, "google_search", "embed2",
                           [i EXCEPT !.search_result = r, !.kb_context = Str(r),
                                     !.truncated_context = t])
             ELSE Returned(p, "google_search", "get_history",
                           [i EXCEPT !.search_result = r, !.kb_context = Str(t),
                                     !.truncated_context = t])
    /\ UNCHANGED <<historyTable, pineIndex, committed, version>>
    /\ ChatFrame

\* new_embedding = get_embedding(truncated_context, bedrock)
Embed2(p) ==
    /\ inv[p].pc = "embed2"
    /\ \/ Returned(p, "embed", "upsert", inv[p])
       \/ \E e \in Errors : Escape(p, "embed", e)
    /\ UNCHANGED <<historyTable, pineIndex, committed, version>>
    /\ ChatFrame

\* the vectors of the upsert call with the untruncated search result
UpsertVectorsWhole(i) == <<WebVector(i.search_result)>>

\* the vectors of the upsert call
UpsertVectors(i) == <<WebVector(i.truncated_context)>>

RECURSIVE UpsertAll(_, _)
UpsertAll(idx, vs) ==
    IF vs = << >> THEN idx ELSE UpsertAll(PineUpsert(idx, Head(vs)), Tail(vs))

\* index.upsert([...]); route = 'web'
Upsert(p) ==
    /\ inv[p].pc = "upsert"
    /\ \/ /\ Returned(p, "upsert", "get_history",
                      [inv[p] EXCEPT !.upserted = @ \o UpsertVectors(inv[p]),
                                     !.route = "web"])
          /\ pineIndex' = UpsertAll(pineIndex, UpsertVectors(inv[p]))
       \/ /\ \E e \in Errors : Escape(p, "upsert", e)
          /\ UNCHANGED pineIndex
    /\ UNCHANGED <<historyTable, committed, version>>
    /\ ChatFrame

\* get_history(session_id): the stored list, [] when the session has no item
get_history(table, session_id) == table[session_id]

\* save_history writing the item of the default session
save_history_default(table, session_id, history) ==
    [table EXCEPT !["default"] = history]

\* save_history appending the new turn to the list that is stored
save_history_merge(table, session_id, history) ==
    [table EXCEPT ![session_id] = Append(@, history[Len(history)])]

\* save_history(session_id, history): put_item replaces the whole item
save_history(table, session_id, history) ==
    [table EXCEPT ![session_id] = history]

\* a window of the oldest turns: history[:MAX_HISTORY]
RecentHistoryOldest(history) == SubSeq(history, 1, Min(Len(history), MAX_HISTORY))

\* recent_history = history[-MAX_HISTORY:]
RecentHistory(history) ==
    SubSeq(history, Len(history) - Min(Len(history), MAX_HISTORY) + 1, Len(history))

\* history_text: f"User: {turn['user']}\nBot: {turn['bot']}\n" for each turn
HistoryText(recent_history) ==
    [k \in DOMAIN recent_history |->
        <<Lit("User: ", 6), recent_history[k].user,
          Lit("\nBot: ", 6), recent_history[k].bot, Lit("\n", 1)>>]

\* history = get_history(session_id) and the history part of the prompt
GetHistory(p) ==
    /\ inv[p].pc = "get_history"
    /\ \/ LET h == get_history(historyTable, inv[p].session_id)
          IN  Returned(p, "get_history", "claude",
                       [inv[p] EXCEPT !.history_read = h, !.history = h,
                                      !.history_text = HistoryText(RecentHistory(h)),
                                      !.readVer = version[inv[p].session_id]])
       \/ \E e \in Errors : Escape(p, "get_history", e)
    /\ UNCHANGED <<historyTable, pineIndex, committed, version>>
    /\ ChatFrame

\* the body of the 200 response
OkBody(h, i, response_text) ==
    IF h = "agentic" THEN [response |-> response_text, route |-> i.route]
    ELSE [response |-> response_text]

\* bedrock.invoke_model(claude) inside try; history.append({user, bot})
Claude(p, responses) ==
    /\ inv[p].pc = "claude"
    /\ \/ \E r \in responses :
            IF handler = "simple"
            THEN Returned(p, "claude", "done",
                          [inv[p] EXCEPT !.response_text = r, !.status = 200,
                                         !.body = OkBody(handler, inv[p], r)])
            ELSE Returned(p, "claude", "save_history",
                          [inv[p] EXCEPT !.response_text = r,
                                         !.history = Append(@, Turn(inv[p].prompt, r))])
       \/ \E e \in Errors : Caught(p, "claude", e)
    /\ UNCHANGED <<historyTable, pineIndex, committed, version>>
    /\ ChatFrame

\* save_history(session_id, history) inside try, then return 200
SaveHistory(p) ==
    /\ inv[p].pc = "save_history"
    /\ LET i == inv[p]
           sid == i.session_id
       IN  \/ /\ historyTable' = save_history(historyTable, sid, i.history)
              /\ version' = [version EXCEPT ![sid] = @ + 1]
              /\ committed' = [committed EXCEPT
                                 ![sid] = Append(@, Turn(i.prompt, i.response_text))]
              /\ Returned(p, "save_history", "done",
                          [i EXCEPT !.status = 200, !.wroteVer = version[sid] + 1,
                                    !.body = OkBody(handler, i, i.response_text)])
           \/ /\ \E e \in Errors : Caught(p, "save_history", e)
              /\ UNCHANGED <<historyTable, version, committed>>
    /\ UNCHANGED pineIndex
    /\ ChatFrame

(***************************************************************************)
(* The test-case generator                                                 *)
(* (src/llmtestcasegenerator/llmtestcasegeneratorlambda.py)                *)
(* The event body is empty or missing, a string that is not JSON, a JSON   *)
(* value that is no object, or a JSON object.                              *)
(***************************************************************************)
MaxGenInvocations == 2

GenDocuments == {Missing, Text("", 0), Text("spec", 900)}
GenFilenames == {"spec.txt", "spec.pdf"}
GenSessionIds == {"<missing>", "", "s1"}
GenResponses == {"cases"}
GenFeedback == {"feedback"}

GenEvents ==
    [kind : {"missing", "empty", "invalid_json", "json_non_object"},
     document : {Missing}, filename : {"spec.txt"}, sessionId : {"<missing>"}]
    \cup [kind : {"json_object"}, document : GenDocuments,
          filename : GenFilenames, sessionId : GenSessionIds]

\* str(uuid4()): the n-th identifier generated
Uuid(n) == "uuid-" \o ToString(n)

\* data.get("sessionId") or str(uuid4()), with a new identifier every time
SessionIdAlwaysNew(given, fresh) == fresh

\* data.get("sessionId") or str(uuid4())
SessionId(given, fresh) ==
    IF given \in {"<missing>", ""} THEN fresh ELSE given

\* the text taken from the document: the document itself for .txt, the decoded
\* file for .pdf/.docx, a placeholder when decoding raised
ExtractedTexts(document, filename) ==
    IF filename = "spec.txt" THEN {document}
    ELSE {Text("extracted", 700),
          Text("[Could not extract text from spec.pdf: ...]", 60)}

GenIdle ==
    [pc |-> "idle", n |-> 0, event |-> [kind |-> "missing"], session_id |-> "",
     uuid |-> "", extracted_text |-> Text("", 0), kb_context |-> "",
     history |-> << >>, response_text |-> "", validation_text |-> "",
     calls |-> << >>, generated |-> FALSE, validated |-> FALSE, saved |-> FALSE,
     status |-> 0, body |-> NoBody, raised |-> "", escaped |-> FALSE,
     failed |-> << >>]

GenFrame == UNCHANGED <<routeVars, chatVars, embVars, defectVars, extVars>>

\* the items of the table: get_item / put_item by session_id
GenGet(table, sid) == IF sid \in DOMAIN table THEN table[sid] ELSE << >>

GenPut(table, sid, history) ==
    [k \in DOMAIN table \cup {sid} |-> IF k = sid THEN history ELSE table[k]]

\* the body of the 200 response
GenBody(g) ==
    [sessionId |-> g.session_id, testCases |-> g.response_text,
     validationFeedback |-> g.validation_text]

\* lambda_handler from the parsing of the event to the extraction of the text
GenStart ==
    /\ gen.pc \in {"idle", "done"}
    /\ gen.n < MaxGenInvocations
    /\ \E ev \in GenEvents :
         LET fresh == [GenIdle EXCEPT !.n = gen.n + 1, !.event = ev]
         IN  CASE ev.kind \in {"missing", "empty"} ->
                    /\ gen' = [fresh EXCEPT !.pc = "done", !.status = 400,
                                 !.body = [error |-> "Invalid input: Empty body"]]
                    /\ UNCHANGED genIds
               [] ev.kind = "invalid_json" ->
                    /\ gen' = [fresh EXCEPT !.pc = "done", !.status = 400,
                                 !.body = [error |-> "Invalid input: Expecting value"]]
                    /\ UNCHANGED genIds
               [] ev.kind = "json_non_object" ->
                    \* data.get(...) on a list, a number, a string or null
                    /\ gen' = [fresh EXCEPT !.pc = "done", !.escaped = TRUE,
                                 !.raised = "AttributeError"]
                    /\ UNCHANGED genIds
               [] OTHER ->
                    LET newId == ev.sessionId \in {"<missing>", ""}
                        sid == SessionId(ev.sessionId, Uuid(genIds + 1))
                        g1 == [fresh EXCEPT !.session_id = sid,
                                 !.uuid = IF newId THEN Uuid(genIds + 1) ELSE ""]
                    IN  /\ genIds' = IF newId THEN genIds + 1 ELSE genIds
                        /\ IF ev.document = Missing \/ ev.document.len = 0
                           THEN gen' = [g1 EXCEPT !.pc = "done", !.status = 400,
                                          !.body = [error |-> "No document provided"]]
                           ELSE \E t \in ExtractedTexts(ev.document, ev.filename) :
                                    gen' = [g1 EXCEPT !.pc = "retrieve",
                                              !.extracted_text = t]
    /\ UNCHANGED genTable
    /\ GenFrame

\* kb_context = retrieve_kb_context(extracted_text, top_k=5), failure replaced
GenRetrieve ==
    /\ gen.pc = "retrieve"
    /\ \/ gen' = [gen EXCEPT !.pc = "get_history", !.kb_context = "kb",
                             !.calls = Append(@, "retrieve_kb")]
       \/ \E e \in Errors :
            gen' = [gen EXCEPT !.pc = "get_history",
                               !.kb_context = "[Could not retrieve KB context: ...]",
                               !.calls = Append(@, "retrieve_kb"),
                               !.failed = Append(@, "retrieve_kb")]
    /\ UNCHANGED <<genTable, genIds>>
    /\ GenFrame

\* history = get_history(session_id): [] when get_item raised
GenGetHistory ==
    /\ gen.pc = "get_history"
    /\ \/ gen' = [gen EXCEPT !.pc = "generate",
                             !.history = GenGet(genTable, gen.session_id),
                             !.calls = Append(@, "get_history")]
       \/ \E e \in Errors :
            gen' = [gen EXCEPT !.pc = "generate", !.history = << >>,
                               !.calls = Append(@, "get_history"),
                               !.failed = Append(@, "get_history")]
    /\ UNCHANGED <<genTable, genIds>>
    /\ GenFrame

\* a generation whose failure is only printed
GenGenerateSwallowed ==
    /\ gen.pc = "generate"
    /\ \/ \E r \in GenResponses :
            gen' = [gen EXCEPT !.pc = "validate", !.response_text = r,
                               !.generated = TRUE, !.calls = Append(@, "generate")]
       \/ \E e \in Errors :
            gen' = [gen EXCEPT !.pc = "validate", !.raised = e,
                               !.calls = Append(@, "generate"),
                               !.failed = Append(@, "generate")]
    /\ UNCHANGED <<genTable, genIds>>
    /\ GenFrame

\* bedrock.invoke_model for the generation, inside try
GenGenerate ==
    /\ gen.pc = "generate"
    /\ \/ \E r \in GenResponses :
            gen' = [gen EXCEPT !.pc = "validate", !.response_text = r,
                               !.generated = TRUE, !.calls = Append(@, "generate")]
       \/ \E e \in Errors :
            gen' = [gen EXCEPT !.pc = "done", !.status = 500, !.raised = e,
                               !.body = [error |-> e],
                               !.calls = Append(@, "generate"),
                               !.failed = Append(@, "generate")]
    /\ UNCHANGED <<genTable, genIds>>
    /\ GenFrame

\* bedrock.invoke_model for the validation, inside try; history.append
GenValidate ==
    /\ gen.pc = "validate"
    /\ \/ \E v \in GenFeedback :
            gen' = [gen EXCEPT !.pc = "save_history", !.validation_text = v,
                               !.validated = TRUE,
                               !.history = Append(@, Turn(gen.extracted_text,
                                                          gen.response_text)),
                               !.calls = Append(@, "validate")]
       \/ \E e \in Errors :
            gen' = [gen EXCEPT !.pc = "done", !.status = 500, !.raised = e,
                               !.body = [error |-> e],
                               !.calls = Append(@, "validate"),
                               !.failed = Append(@, "validate")]
    /\ UNCHANGED <<genTable, genIds>>
    /\ GenFrame

\* save_history(session_id, history), a failure only printed; return 200
GenSaveHistory ==
    /\ gen.pc = "save_history"
    /\ LET done == [gen EXCEPT !.pc = "done", !.status = 200, !.body = GenBody(gen),
                               !.calls = Append(@, "save_history")]
       IN  \/ /\ genTable' = GenPut(genTable, gen.session_id, gen.history)
              /\ gen' = [done EXCEPT !.saved = TRUE]
           \/ /\ \E e \in Errors :
                    gen' = [done EXCEPT !.failed = Append(@, "save_history")]
              /\ UNCHANGED genTable
    /\ UNCHANGED genIds
    /\ GenFrame

GenInit ==
    /\ gen = GenIdle
    /\ genTable \in {[k \in {} |-> << >>],
                     [k \in {"s1"} |-> <<Turn(Text("old", 50), "old cases")>>]}
    /\ genIds = 0


(***************************************************************************)
(* get_embedding of the preprocessing scripts                              *)
(* (src/RAGChatbots/Pinecone_Implementation/RAGPreprocessingScript.py and  *)
(*  src/venv/LambdaHandler/RAGChatbot/RAGPreprocessingScript.py)           *)
(* One attempt returns an embedding, raises ClientError with code          *)
(* ThrottlingException or another code, or raises another exception.       *)
(***************************************************************************)
MaxRetries == 5
InitialDelay == 1

EmbTexts == {Text("chunk1", 500), Text("chunk2", 500), Text("chunk3", 73)}
EmbOutcomes ==
    {"ok", "ThrottlingException", "ValidationException", "AccessDeniedException",
     "Exception"}

\* the embedding the model returns for a text
EmbeddingOf(text) == <<"embedding", text>>

NoEmbedding == <<"None">>

\* delay after a throttled attempt, growing by one second
NextDelayLinear(delay) == delay + 1

\* delay *= 2
NextDelay(delay) == delay * 2

\* a loop that goes on after every ClientError
RetryableClientError(outcome) ==
    outcome \in {"ThrottlingException", "ValidationException", "AccessDeniedException"}

\* the except clauses: whether the loop goes on after this outcome
Retryable(outcome) == outcome = "ThrottlingException"

EmbFrame == UNCHANGED <<routeVars, chatVars, genVars, defectVars, extVars>>

\* get_embedding(text, max_retries=5, delay=1) is called
EmbInit ==
    emb \in {[pc |-> "attempt", text |-> t, attempt |-> 0, delay |-> InitialDelay,
              outcomes |-> << >>, sleeps |-> << >>, result |-> NoEmbedding,
              returned |-> FALSE] : t \in EmbTexts}

\* for attempt in range(max_retries): try: bedrock.invoke_model(...)
EmbAttempt ==
    /\ emb.pc = "attempt"
    /\ emb.attempt < MaxRetries
    /\ \E o \in EmbOutcomes :
         emb' = [emb EXCEPT
                   !.attempt = @ + 1,
                   !.outcomes = Append(@, o),
                   !.pc = IF o = "ok" THEN "done"
                          ELSE IF Retryable(o) THEN "sleep" ELSE "exhausted",
                   !.result = IF o = "ok" THEN EmbeddingOf(emb.text) ELSE @,
                   !.returned = (o = "ok")]
    /\ EmbFrame

\* time.sleep(delay); delay *= 2
EmbSleep ==
    /\ emb.pc = "sleep"
    /\ emb' = [emb EXCEPT !.sleeps = Append(@, emb.delay),
                          !.delay = NextDelay(@),
                          !.pc = IF emb.attempt < MaxRetries
                                 THEN "attempt" ELSE "exhausted"]
    /\ EmbFrame

\* print("Max retries exceeded for embedding."); return None
EmbGiveUp ==
    /\ emb.pc = "exhausted"
    /\ emb' = [emb EXCEPT !.pc = "done", !.result = NoEmbedding, !.returned = TRUE]
    /\ EmbFrame


(***************************************************************************)
(* The defect agent (src/mcp_defect_agent/mcp_server_lambda.py)            *)
(* The whole handler body is inside one try block: an exception of any     *)
(* call gives the 500 response.  None is the string "<None>".              *)
(***************************************************************************)
MaxReports == 3

DefectProcs == {1, 2}
TestNames == {"<None>", "test_login"}
\* body.get('error'): an error text, or None when the report has no such field
ErrorTexts == {Text("timeout", 7), Text("HTTP 500 Internal Server Error", 80), None}
StackTraces == {None, Text("Traceback", 30)}
DefectEvents ==
    [kind : {"invalid_json"}, test_name : {"<None>"}, error : {Text("timeout", 7)},
     stack_trace : {None}]
    \cup [kind : {"api_gateway", "direct"}, test_name : TestNames,
          error : ErrorTexts, stack_trace : StackTraces]

\* what the model's reply parses to: a summary, or nothing usable
LlmOutcomes == {"summary", "unparsable", "raise"}
JiraOutcomes == {"201", "400", "raise"}

\* the FilterExpression comparing the stored summary with the reported error
ScanFilterOnSummary(item, test_name, error) ==
    item.test_name = test_name /\ item.summary = Str(error)

\* Attr('test_name').eq(test_name) & Attr('error').eq(error)
ScanFilter(item, test_name, error) ==
    item.test_name = test_name /\ item.error = error

\* defect_table.scan(FilterExpression=..., ProjectionExpression='defect_id')
Scan(table, test_name, error) ==
    {item.defect_id : item \in {it \in table : ScanFilter(it, test_name, error)}}

\* defect_table.put_item(Item=item): replaces the item with the same key
DefectPut(table, item) ==
    {it \in table : it.defect_id # item.defect_id} \cup {item}

\* f"{test_name}-{timestamp}"
DefectId(test_name, timestamp) == test_name \o "-" \o ToString(timestamp)


\* f"{test_name}": the name, or 'None'
FmtName(test_name) ==
    IF test_name = "<None>" THEN Lit("None", 4) ELSE Lit(test_name, 10)

\* '500' in error
Has500(error) == error.id \in {"HTTP 500 Internal Server Error"}

\* error[:50] and '500' in error raise TypeError when error is None
FallbackRaises(error) == error = None

\* the summary built in the except clause of summarize_failure
FallbackSummary(test_name, error, stack_trace) ==
    [title |-> <<FmtName(test_name), Lit(" failed: ", 9)>> \o Str(Truncate(error, 50)),
     description |->
         <<Lit("Test '", 6), FmtName(test_name), Lit("' failed with error: ", 21)>>
         \o Str(error) \o <<Lit(". Stack trace: ", 15)>>
         \o (IF Truthy(stack_trace) THEN Str(stack_trace) ELSE << >>),
     severity |-> IF Has500(error) THEN "High" ELSE "Medium"]

\* the summary parsed from the model's reply
LlmSummary ==
    [title |-> <<Lit("Login fails", 11)>>,
     description |-> <<Lit("The login test fails", 20)>>,
     severity |-> "Low"]

DefectIdle ==
    [pc |-> "idle", event |-> [kind |-> "direct"], test_name |-> "<None>",
     error |-> Text("timeout", 7), stack_trace |-> None, timestamp |-> 0,
     stored |-> {}, llm |-> "", summary |-> LlmSummary,
     item |-> NoBody, calls |-> << >>, status |-> 0, body |-> NoBody, raised |-> "",
     failed |-> << >>]

DefectRunning(p) == dfct[p].pc \notin {"idle", "done"}

DefectFrame == UNCHANGED <<routeVars, chatVars, genVars, embVars, extVars>>

DefectFail(p, call, e) ==
    dfct' = [dfct EXCEPT ![p] = [@ EXCEPT !.pc = "done", !.status = 500,
                                          !.raised = e, !.body = [error |-> e],
                                          !.calls = Append(@, call),
                                          !.failed = Append(@, call)]]

DefectGo(p, call, pc, upd) ==
    dfct' = [dfct EXCEPT ![p] = [upd EXCEPT !.pc = pc,
                                            !.calls = Append(dfct[p].calls, call)]]

\* lambda_handler from the body extraction to the timestamp
DefectStartOf(p, events) ==
    /\ ~DefectRunning(p)
    /\ clock < MaxReports
    /\ \E ev \in events :
         LET fresh == [DefectIdle EXCEPT !.event = ev]
         IN  dfct' = [dfct EXCEPT ![p] =
                 IF ev.kind = "invalid_json"
                 THEN [fresh EXCEPT !.pc = "done", !.status = 500,
                                    !.raised = "JSONDecodeError",
                                    !.body = [error |-> "JSONDecodeError"]]
                 ELSE [fresh EXCEPT !.pc = "scan", !.test_name = ev.test_name,
                                    !.error = ev.error,
                                    !.stack_trace = ev.stack_trace,
                                    !.timestamp = clock + 1,
                                    !.stored = {it \in defectTable :
                                                   /\ it.test_name = ev.test_name
                                                   /\ it.error = ev.error}]]
    /\ clock' = clock + 1
    /\ UNCHANGED defectTable
    /\ DefectFrame

DefectStart(p) == DefectStartOf(p, DefectEvents)

\* the reports of one test that two invocations of the agent bring at a time
RaceEvents ==
    {ev \in DefectEvents : /\ ev.kind = "direct" /\ ev.test_name = "test_login"
                            /\ ev.error # None /\ ev.stack_trace = None}

\* existing = defect_table.scan(...); the duplicate answer
DefectScan(p) ==
    /\ dfct[p].pc = "scan"
    /\ LET d == dfct[p]
           existing == Scan(defectTable, d.test_name, d.error)
       IN  \/ IF existing # {}
              THEN \E first \in existing :
                      DefectGo(p, "scan", "done",
                               [d EXCEPT !.status = 200,
                                  !.body = [message |-> "Duplicate defect. Not logged again.",
                                            defect_id |-> first]])
              ELSE DefectGo(p, "scan", "context", d)
           \/ \E e \in Errors : DefectFail(p, "scan", e)
    /\ UNCHANGED <<defectTable, clock>>
    /\ DefectFrame

\* summarize_failure: retrieve_project_context, outside its try block
DefectContext(p) ==
    /\ dfct[p].pc = "context"
    /\ \/ DefectGo(p, "similarity_search", "llm", dfct[p])
       \/ \E e \in Errors : DefectFail(p, "similarity_search", e)
    /\ UNCHANGED <<defectTable, clock>>
    /\ DefectFrame

\* summarize_failure: llm(prompt) and the parsing of its reply, or the fallback
\* of the except clause, which itself raises on an error that is None; then the
\* defect item is built
DefectLlm(p) ==
    /\ dfct[p].pc = "llm"
    /\ \E o \in LlmOutcomes :
         LET d == dfct[p]
             summary == IF o = "summary" THEN LlmSummary
                        ELSE FallbackSummary(d.test_name, d.error, d.stack_trace)
             item == [defect_id |-> DefectId(d.test_name, d.timestamp),
                      test_name |-> d.test_name, error |-> d.error,
                      stack_trace |-> d.stack_trace,
                      summary |-> summary.title,
                      description |-> summary.description,
                      severity |-> summary.severity,
                      timestamp |-> d.timestamp]
             failed == IF o = "raise" THEN Append(d.failed, "llm") ELSE d.failed
         IN  IF o # "summary" /\ FallbackRaises(d.error)
             THEN dfct' = [dfct EXCEPT ![p] =
                      [d EXCEPT !.pc = "done", !.status = 500, !.llm = o,
                                !.raised = "TypeError",
                                !.body = [error |-> "TypeError"],
                                !.calls = Append(@, "llm"), !.failed = failed]]
             ELSE DefectGo(p, "llm", "put_item",
                           [d EXCEPT !.llm = o, !.summary = summary, !.item = item,
                                     !.failed = failed])
    /\ UNCHANGED <<defectTable, clock>>
    /\ DefectFrame

\* defect_table.put_item(Item=defect_item)
DefectPutItem(p) ==
    /\ dfct[p].pc = "put_item"
    /\ \/ /\ defectTable' = DefectPut(defectTable, dfct[p].item)
          /\ DefectGo(p, "put_item", "jira", dfct[p])
       \/ /\ \E e \in Errors : DefectFail(p, "put_item", e)
          /\ UNCHANGED defectTable
    /\ UNCHANGED clock
    /\ DefectFrame

\* a handler that takes the item out of the table again when JIRA did not
\* create the issue
DefectJiraRollback(p) ==
    /\ dfct[p].pc = "jira"
    /\ \E o \in JiraOutcomes :
         /\ IF o = "raise"
            THEN \E e \in Errors : DefectFail(p, "jira", e)
            ELSE DefectGo(p, "jira", "done",
                          [dfct[p] EXCEPT !.status = 200,
                             !.failed = IF o = "400" THEN Append(@, "jira_status")
                                        ELSE @,
                             !.body = [message |-> "Defect logged",
                                       defect |-> dfct[p].item,
                                       jira_result |->
                                           IF o = "201" THEN [key |-> "BUG-1"]
                                           ELSE [error |-> "rejected", status |-> 400]]])
         /\ defectTable' = IF o = "201" THEN defectTable
                           ELSE defectTable \ {dfct[p].item}
    /\ UNCHANGED clock
    /\ DefectFrame

\* create_jira_issue(summary, description, severity) and the 200 response
DefectJira(p) ==
    /\ dfct[p].pc = "jira"
    /\ \E o \in JiraOutcomes :
         IF o = "raise"
         THEN \E e \in Errors : DefectFail(p, "jira", e)
         ELSE DefectGo(p, "jira", "done",
                       [dfct[p] EXCEPT !.status = 200,
                          !.failed = IF o = "400" THEN Append(@, "jira_status")
                                     ELSE @,
                          !.body = [message |-> "Defect logged",
                                    defect |-> dfct[p].item,
                                    jira_result |->
                                        IF o = "201" THEN [key |-> "BUG-1"]
                                        ELSE [error |-> "rejected", status |-> 400]]])
    /\ UNCHANGED <<defectTable, clock>>
    /\ DefectFrame

DefectInit ==
    /\ dfct = [p \in DefectProcs |-> DefectIdle]
    /\ defectTable = {}
    /\ clock = 0


(***************************************************************************)
(* Preprocessing handlers                                                  *)
(*   opensearch  src/RAGChatbots/Langchain_OpenSearch_Implementation/      *)
(*               RAGPreprocessingScript_Langchain.py                       *)
(*   generator   src/llmtestcasegenerator/RAGPreprocessingScript_Langchain *)
(*   pinecone    src/RAGChatbots/Pinecone_Implementation/                  *)
(*               RAGPreprocessingScript.py                                 *)
(* A run is one invocation of the handler (entry "main") or, for the       *)
(* opensearch script, one call of process_s3_files(event) (entry           *)
(* "process_s3_files").  One step handles one file or one web page; every  *)
(* client call in it returns or raises.  The bucket changes only between   *)
(* runs.  A term query matches the documents whose metadata hold the value.*)
(* Every from_documents call creates new documents; the ghost field run of *)
(* a document names the run that indexed it.                               *)
(***************************************************************************)
MaxRuns == 2
MaxVersion == 2

PreHandlers == {"opensearch", "generator", "pinecone"}

\* the keys of the bucket in the order list_objects_v2 returns them
PreKeys == <<"a.txt", "b.pdf", "kb_index.json">>
PreKeySet == {PreKeys[k] : k \in DOMAIN PreKeys}

\* the configured web pages
PreUrls == <<"https://en.wikipedia.org/wiki/Amazon_Web_Services">>

\* key.strip().lower().split('.')[-1]
Ext(key) ==
    CASE key = "a.txt" -> "txt"
      [] key = "b.pdf" -> "pdf"
      [] OTHER -> "json"

\* the extensions a handler loads
Supported(h) ==
    CASE h = "opensearch" -> {"txt", "pdf", "doc", "docx"}
      [] h = "generator" -> {"txt", "pdf", "docx"}
      [] OTHER -> {"txt"}

\* the events a handler is invoked with; an S3 event names one or two keys
PreEvents ==
    [kind : {"none", "empty_dict", "not_dict", "no_records", "records_empty", "sns"},
     keys : {<< >>}]
    \cup [kind : {"s3"},
          keys : {<<"a.txt">>, <<"b.pdf">>, <<"a.txt", "b.pdf">>, <<"kb_index.json">>}]

\* is_s3_trigger(event): 'Records' in event and 's3' in event['Records'][0]
is_s3_trigger(event) ==
    CASE event.kind \in {"none", "empty_dict"} -> "False"
      [] event.kind = "not_dict" -> "False"
      [] event.kind = "no_records" -> "False"
      [] event.kind = "records_empty" -> "IndexError"
      [] event.kind = "s3" -> "True"
      [] OTHER -> "False"

\* the documents from_documents creates for a source
DocsOf(source, etag, run) ==
    {[source |-> source, etag |-> etag, i |-> i, run |-> run] : i \in 1..2}

\* a query that looks for the chunks of the key under any other ETag
SearchHitsOtherETag(idx, key, etag) == {d \in idx : d.source = key /\ d.etag # etag}

\* {"term": {"source": key}}, {"term": {"etag": etag}}
SearchHits(idx, key, etag) == {d \in idx : d.source = key /\ d.etag = etag}

\* delete_by_query {"term": {"source": key}}
DeleteBySource(idx, key) == {d \in idx : d.source # key}

PreIdle ==
    [pc |-> "idle", run |-> 0, entry |-> "", event |-> [kind |-> "none", keys |-> << >>],
     branch |-> "", todo |-> << >>, etags |-> << >>, urls |-> << >>,
     calls |-> << >>, raised |-> "", escaped |-> FALSE, status |-> 0,
     before |-> {},
     bucketAt |-> [k \in PreKeySet |-> 0], prevBucket |-> [k \in PreKeySet |-> 0],
     prevBranch |-> "", prevEscaped |-> FALSE]

PreRunning == pre.pc \notin {"idle", "done"}

PreFrame == UNCHANGED <<routeVars, genVars, embVars, defectVars, healVars, kbVars, moreVars,
                        handler, inv, historyTable, committed, version, started>>

\* an exception in the run: the generator handler answers 500, the two main
\* functions let it escape
PreRaise(r, call, e) ==
    IF handler = "generator"
    THEN [r EXCEPT !.pc = "done", !.calls = Append(@, call), !.raised = e,
                   !.status = 500]
    ELSE [r EXCEPT !.pc = "done", !.calls = Append(@, call), !.raised = e,
                   !.escaped = TRUE]

\* the keys and ETags named in event['Records']
EventKeys(event) == event.keys
EventETags(event, bkt) ==
    [k \in {event.keys[i] : i \in DOMAIN event.keys} |-> bkt[k]]

\* keys of objects.get("Contents", [])
ListedKeys(bkt) == SelectSeq(PreKeys, LAMBDA k : bkt[k] > 0)
ListedETags(bkt) == [k \in {q \in PreKeySet : bkt[q] > 0} |-> bkt[k]]

\* the loop goes on with the files or pages left, or the handler returns
PreStep(r) ==
    IF r.todo # << >> THEN [r EXCEPT !.pc = "files"]
    ELSE IF r.urls # << >> THEN [r EXCEPT !.pc = "web"]
    ELSE [r EXCEPT !.pc = "done", !.status = IF handler = "generator" THEN 200 ELSE 0]

\* the log of the run with the calls made for key
PreCalls(r, ops, key) == [r EXCEPT !.calls = @ \o [k \in DOMAIN ops |-> <<ops[k], key>>]]

\* continue: the loop leaves the file at the head of the list
PreContinue(r, ops) ==
    PreStep([PreCalls(r, ops, Head(r.todo)) EXCEPT !.todo = Tail(@)])

\* a document is uploaded or replaced between two runs
S3Put ==
    /\ pre.pc = "done"
    /\ \E k \in PreKeySet \ {"kb_index.json"} :
         /\ bucket[k] < MaxVersion
         /\ bucket' = [bucket EXCEPT ![k] = @ + 1]
    /\ UNCHANGED <<pre, osIndex, pineIndex>>
    /\ PreFrame

\* lambda_handler / main(event): the trigger decision
PreMain ==
    /\ ~PreRunning
    /\ pre.run < MaxRuns
    /\ \E ev \in PreEvents :
         LET r == [PreIdle EXCEPT !.run = pre.run + 1, !.entry = "main",
                                  !.event = ev, !.before = osIndex,
                                  !.bucketAt = bucket,
                                  !.prevBucket = pre.bucketAt,
                                  !.prevBranch = pre.branch,
                                  !.prevEscaped = pre.escaped]
             t == is_s3_trigger(ev)
         IN  pre' = CASE t = "IndexError" -> PreRaise(r, <<"is_s3_trigger", "">>, t)
                      [] t = "True" -> [r EXCEPT !.pc = "list", !.branch = "s3"]
                      [] OTHER -> [r EXCEPT !.pc = "web", !.branch = "web",
                                            !.urls = PreUrls]
    /\ UNCHANGED <<bucket, osIndex, pineIndex>>
    /\ PreFrame

\* process_s3_files(event) called with the S3 event
PreDirect ==
    /\ ~PreRunning
    /\ handler = "opensearch"
    /\ pre.run < MaxRuns
    /\ \E ev \in {e \in PreEvents : e.kind = "s3"} :
         /\ \A i \in DOMAIN ev.keys : bucket[ev.keys[i]] > 0
         /\ pre' = [PreIdle EXCEPT !.run = pre.run + 1, !.entry = "process_s3_files",
                                   !.event = ev, !.before = osIndex,
                                   !.bucketAt = bucket,
                                   !.prevBucket = pre.bucketAt,
                                   !.prevBranch = pre.branch,
                                   !.prevEscaped = pre.escaped,
                                   !.pc = "files", !.branch = "s3",
                                   !.todo = EventKeys(ev),
                                   !.etags = EventETags(ev, bucket)]
    /\ UNCHANGED <<bucket, osIndex, pineIndex>>
    /\ PreFrame

\* s3.list_objects_v2(Bucket=bucket)
PreList ==
    /\ pre.pc = "list"
    /\ \/ pre' = PreStep([pre EXCEPT !.todo = ListedKeys(bucket),
                                      !.etags = ListedETags(bucket),
                                      !.calls = Append(@, <<"list_objects_v2", "">>)])
       \/ \E e \in Errors : pre' = PreRaise(pre, <<"list_objects_v2", "">>, e)
    /\ UNCHANGED <<bucket, osIndex, pineIndex>>
    /\ PreFrame

\* process_s3_files of the opensearch script: one iteration of the loop over
\* keys_to_process
PreFileOs ==
    /\ pre.pc = "files"
    /\ handler = "opensearch"
    /\ LET key == Head(pre.todo)
           etag == pre.etags[key]
           deleted == DeleteBySource(osIndex, key)
       IN  IF key = "kb_index.json"
           THEN pre' = PreContinue(pre, << >>) /\ UNCHANGED osIndex
           ELSE \/ \* opensearch_client.search raises
                   /\ \E e \in Errors : pre' = PreRaise(pre, <<"search", key>>, e)
                   /\ UNCHANGED osIndex
                \/ \* already indexed: skip
                   /\ SearchHits(osIndex, key, etag) # {}
                   /\ pre' = PreContinue(pre, <<"search">>)
                   /\ UNCHANGED osIndex
                \/ \* delete_by_query raises
                   /\ SearchHits(osIndex, key, etag) = {}
                   /\ \E e \in Errors :
                        pre' = PreRaise(PreCalls(pre, <<"search">>, key),
                                        <<"delete_by_query", key>>, e)
                   /\ UNCHANGED osIndex
                \/ \* get_object or the loader raises, or the file holds no text
                   /\ SearchHits(osIndex, key, etag) = {}
                   /\ osIndex' = deleted
                   /\ pre' = PreContinue(pre, <<"search", "delete_by_query",
                                                "get_object">>)
                \/ \* from_documents raises
                   /\ SearchHits(osIndex, key, etag) = {}
                   /\ Ext(key) \in Supported(handler)
                   /\ osIndex' = deleted
                   /\ \E e \in Errors :
                        pre' = PreRaise(PreCalls(pre, <<"search", "delete_by_query",
                                                       "get_object">>, key),
                                        <<"from_documents", key>>, e)
                \/ \* the new chunks are indexed
                   /\ SearchHits(osIndex, key, etag) = {}
                   /\ Ext(key) \in Supported(handler)
                   /\ osIndex' = deleted \cup DocsOf(key, etag, pre.run)
                   /\ pre' = PreContinue(pre, <<"search", "delete_by_query",
                                                "get_object", "from_documents">>)
    /\ UNCHANGED <<bucket, pineIndex>>
    /\ PreFrame

\* process_s3_files of the generator's script: one object of one page
PreFileGen ==
    /\ pre.pc = "files"
    /\ handler = "generator"
    /\ LET key == Head(pre.todo)
       IN  \/ \* s3.get_object raises
              /\ \E e \in Errors : pre' = PreRaise(pre, <<"get_object", key>>, e)
              /\ UNCHANGED osIndex
           \/ \* unsupported extension, or no text in the file
              /\ pre' = PreContinue(pre, <<"get_object">>)
              /\ UNCHANGED osIndex
           \/ \* from_documents raises
              /\ Ext(key) \in Supported(handler)
              /\ \E e \in Errors :
                   pre' = PreRaise(PreCalls(pre, <<"get_object">>, key),
                                   <<"from_documents", key>>, e)
              /\ UNCHANGED osIndex
           \/ /\ Ext(key) \in Supported(handler)
              /\ osIndex' = osIndex \cup DocsOf(key, 0, pre.run)
              /\ pre' = PreContinue(pre, <<"get_object", "from_documents">>)
    /\ UNCHANGED <<bucket, pineIndex>>
    /\ PreFrame

\* the vector main() upserts for chunk i of a source
PineDocVector(source, i) ==
    [id |-> <<source \o ":", Lit("i", i)>>, chunk |-> Text(source, 500 * i),
     source |-> source]

RECURSIVE PineUpsertAll(_, _)
PineUpsertAll(idx, vs) ==
    IF vs = {} THEN idx
    ELSE LET v == CHOOSE w \in vs : TRUE
         IN  PineUpsertAll(PineUpsert(idx, v), vs \ {v})

\* main() of the pinecone script, S3 branch: one object of the listing; a
\* chunk whose embedding is None or whose upsert raises is left out
PreFilePine ==
    /\ pre.pc = "files"
    /\ handler = "pinecone"
    /\ LET key == Head(pre.todo)
       IN  IF key = "kb_index.json" \/ Ext(key) \notin Supported(handler)
           THEN pre' = PreContinue(pre, << >>) /\ UNCHANGED pineIndex
           ELSE \/ \* s3.get_object raises, outside the try block
                   /\ \E e \in Errors : pre' = PreRaise(pre, <<"get_object", key>>, e)
                   /\ UNCHANGED pineIndex
                \/ \E done \in SUBSET (1..2) :
                     /\ pineIndex' = PineUpsertAll(pineIndex,
                                         {PineDocVector(key, i) : i \in done})
                     /\ pre' = PreContinue(pre, <<"get_object", "upsert">>)
    /\ UNCHANGED <<bucket, osIndex>>
    /\ PreFrame

\* process_webpages: one URL; scrape_webpage returns "" when the request fails
PreWebOs ==
    /\ pre.pc = "web"
    /\ handler \in {"opensearch", "generator"}
    /\ LET url == Head(pre.urls)
           left == [pre EXCEPT !.urls = Tail(@)]
       IN  \/ \* no text scraped: no documents
              /\ pre' = PreStep(PreCalls(left, <<"requests.get">>, url))
              /\ UNCHANGED osIndex
           \/ /\ \E e \in Errors :
                   pre' = PreRaise(PreCalls(pre, <<"requests.get">>, url),
                                   <<"from_documents", url>>, e)
              /\ UNCHANGED osIndex
           \/ /\ osIndex' = osIndex \cup DocsOf(url, 0, pre.run)
              /\ pre' = PreStep(PreCalls(left, <<"requests.get", "from_documents">>, url))
    /\ UNCHANGED <<bucket, pineIndex>>
    /\ PreFrame

\* main() of the pinecone script, web branch: one URL
PreWebPine ==
    /\ pre.pc = "web"
    /\ handler = "pinecone"
    /\ LET url == Head(pre.urls)
           left == [pre EXCEPT !.urls = Tail(@)]
       IN  \E done \in SUBSET (1..2) :
              /\ pineIndex' = PineUpsertAll(pineIndex,
                                  {PineDocVector(url, i) : i \in done})
              /\ pre' = PreStep(PreCalls(left, <<"requests.get", "upsert">>, url))
    /\ UNCHANGED <<bucket, osIndex>>
    /\ PreFrame

PreInit ==
    /\ pre = PreIdle
    /\ bucket \in {b \in [PreKeySet -> 0..1] : b["kb_index.json"] = 1}
    /\ osIndex = {}

(***************************************************************************)
(* The self-healing Selenium script                                        *)
(* (src/mcp_self_healing_agent/selenium_script.py, fixes_store.py)         *)
(* One run of the script is run_test(), the request to the healing Lambda, *)
(* the re-run with the suggested locator and save_fix.  heal.store is the  *)
(* fixes knowledge base; it outlives the runs.                             *)
(***************************************************************************)
MaxScriptRuns == 2

HealErrors == {"no such element", "N/A"}
Suggestions == {"<None>", "Use By.NAME btnK"}

\* body.get("new_locator") for the replies the Lambda can give
Locators == {"<None>", "", " ", "N/A", "By.ID", ",", "By.NAME, btnK"}

\* new_locator.count(",")
CommaCount(new_locator) ==
    CASE new_locator \in {",", "By.NAME, btnK"} -> 1
      [] OTHER -> 0

\* new_locator.strip()
Strip(new_locator) == IF new_locator = " " THEN "" ELSE new_locator

\* a test that lets every non-empty locator through
LocatorAcceptedAny(new_locator) == new_locator \notin {"<None>", ""}

\* if new_locator: ... not (count(",") < 1 or strip() in ("", "N/A"))
LocatorAccepted(new_locator) ==
    /\ new_locator \notin {"<None>", ""}
    /\ ~(CommaCount(new_locator) < 1 \/ Strip(new_locator) \in {"", "N/A"})

\* by, value = new_locator.replace('By.', '').split(',', 1), stripped
ParseLocator(new_locator) ==
    CASE new_locator = "By.NAME, btnK" -> <<"NAME", "btnK">>
      [] OTHER -> <<"", "">>

\* a test that stores the fix whatever the re-run returned
StoresFixAlways(rerun_result) == TRUE

\* if rerun_result is True
StoresFix(rerun_result) == rerun_result = "True"

\* the replies of the Lambda as the script sees them
HealReplies ==
    [kind : {"no_body", "body_not_json", "body_not_object"},
     new_locator : {"<None>"}, suggestion : {"<None>"}]
    \cup [kind : {"body"}, new_locator : Locators, suggestion : Suggestions]

HealIdle ==
    [pc |-> "idle", run |-> 0, error |-> "", reply |-> [kind |-> "no_body",
     new_locator |-> "<None>", suggestion |-> "<None>"], locator |-> <<"", "">>,
     rerun_result |-> "", calls |-> << >>, escaped |-> FALSE, outcome |-> "",
     store |-> {}]

HealRunning == heal.pc \notin {"idle", "done"}

HealFrame ==
    UNCHANGED <<routeVars, chatVars, genVars, embVars, defectVars, preVars, kbVars,
                moreVars>>

HealDone(h, call, outcome) ==
    [h EXCEPT !.pc = "done", !.calls = Append(@, call), !.outcome = outcome]

\* an exception outside every try block ends the script
HealCrash(h, call) ==
    [h EXCEPT !.pc = "done", !.calls = Append(@, call), !.escaped = TRUE,
              !.outcome = "crashed"]

\* result = run_test()
HealRunTest ==
    /\ ~HealRunning
    /\ heal.run < MaxScriptRuns
    /\ LET h == [HealIdle EXCEPT !.run = heal.run + 1, !.store = heal.store]
       IN  \/ heal' = HealDone(h, "run_test", "passed")
           \/ \E e \in HealErrors :
                heal' = [h EXCEPT !.pc = "post", !.error = e,
                                  !.calls = Append(@, "run_test")]
           \/ \* webdriver.Chrome() or driver.get raises, outside the try block
              heal' = HealCrash(h, "run_test")
    /\ HealFrame

\* requests.post, response.json() and the reading of the reply
HealPost ==
    /\ heal.pc = "post"
    /\ \/ heal' = HealCrash(heal, "post")
       \/ \E r \in HealReplies :
            LET h == [heal EXCEPT !.reply = r]
            IN  heal' =
                  CASE r.kind = "no_body" -> HealDone(h, "post", "no_response")
                    [] r.kind = "body_not_object" -> HealCrash(h, "post")
                    [] r.kind = "body_not_json" -> HealDone(h, "post", "no_fix")
                    [] r.new_locator \in {"<None>", ""} -> HealDone(h, "post", "no_fix")
                    [] ~LocatorAccepted(r.new_locator) ->
                           HealDone(h, "post", "invalid_locator")
                    [] OTHER -> [h EXCEPT !.pc = "rerun",
                                          !.locator = ParseLocator(r.new_locator),
                                          !.calls = Append(@, "post")]
    /\ HealFrame

\* rerun_result = run_test(locator=(by, value)) and the test on its result
HealRerun ==
    /\ heal.pc = "rerun"
    /\ \E res \in {"True", "context", "raise"} :
         LET h == [heal EXCEPT !.rerun_result = res]
         IN  heal' =
               IF res = "raise" THEN HealDone(h, "run_test", "not_applied")
               ELSE IF StoresFix(res)
                    THEN [h EXCEPT !.pc = "save", !.calls = Append(@, "run_test")]
                    ELSE HealDone(h, "run_test", "still_failed")
    /\ HealFrame

\* save_fix("test_google_search_button", result["error"], suggestion)
HealSave ==
    /\ heal.pc = "save"
    /\ \/ heal' = HealDone([heal EXCEPT !.store = @ \cup
                               {[test_name |-> "test_google_search_button",
                                 error |-> heal.error,
                                 fix |-> heal.reply.suggestion,
                                 id |-> heal.run]}],
                           "save_fix", "healed")
       \/ \* the import or add_documents raises: except Exception as store_err
          heal' = HealDone(heal, "save_fix", "healed")
    /\ HealFrame

HealInit == heal = HealIdle

(***************************************************************************)
(* The script that builds kb_index.json                                    *)
(* (src/venv/LambdaHandler/RAGChatbot/RAGPreprocessingScript.py)           *)
(* A text is a sequence of runs of characters of one class: "w" printable  *)
(* and no whitespace, "s" printable whitespace, "x" not in                 *)
(* string.printable and no whitespace.  get_embedding is taken as a whole: *)
(* it returns the embedding or None.                                       *)
(***************************************************************************)
MAX_CHUNK_LENGTH == 8000
ChunkSize == 500

Run(cls, n) == [cls |-> cls, n |-> n]

RECURSIVE TextLen(_)
TextLen(t) == IF t = << >> THEN 0 ELSE Head(t).n + TextLen(Tail(t))

\* text[:n]
RECURSIVE TakeChars(_, _)
TakeChars(t, n) ==
    IF t = << >> \/ n = 0 THEN << >>
    ELSE IF Head(t).n <= n THEN <<Head(t)>> \o TakeChars(Tail(t), n - Head(t).n)
    ELSE <<Run(Head(t).cls, n)>>

\* text[n:]
RECURSIVE DropChars(_, _)
DropChars(t, n) ==
    IF t = << >> \/ n = 0 THEN t
    ELSE IF Head(t).n <= n THEN DropChars(Tail(t), n - Head(t).n)
    ELSE <<Run(Head(t).cls, Head(t).n - n)>> \o Tail(t)

\* a chunk_text that returns the text as one chunk
chunk_text_whole(text, chunk_size) == IF text = << >> THEN << >> ELSE <<text>>

\* [text[i:i+chunk_size] for i in range(0, len(text), chunk_size)]
RECURSIVE chunk_text(_, _)
chunk_text(text, chunk_size) ==
    IF text = << >> THEN << >>
    ELSE <<TakeChars(text, chunk_size)>> \o chunk_text(DropChars(text, chunk_size), chunk_size)

\* ''.join(c for c in chunk if c in string.printable)
OnlyPrintable(chunk) == SelectSeq(chunk, LAMBDA r : r.cls # "x")

\* re.sub(r'\s+', ' ', chunk); neighbouring runs of one class become one run
RECURSIVE Collapse(_)
Collapse(chunk) ==
    IF chunk = << >> THEN << >>
    ELSE LET h == Head(chunk)
             rest == Collapse(Tail(chunk))
         IN  IF h.cls = "s"
             THEN IF rest # << >> /\ rest[1].cls = "s" THEN rest
                  ELSE <<Run("s", 1)>> \o rest
             ELSE IF rest # << >> /\ rest[1].cls = "w"
                  THEN <<Run("w", h.n + rest[1].n)>> \o Tail(rest)
                  ELSE <<h>> \o rest

\* chunk.strip()
StripWs(chunk) ==
    LET a == IF chunk # << >> /\ chunk[1].cls = "s" THEN Tail(chunk) ELSE chunk
    IN  IF a # << >> /\ a[Len(a)].cls = "s" THEN SubSeq(a, 1, Len(a) - 1) ELSE a

clean_chunk(chunk) == StripWs(Collapse(OnlyPrintable(chunk)))

\* a text of printable characters always encodes to UTF-8
is_valid_chunk(chunk) == chunk # << >> /\ StripWs(chunk) # << >>

\* text.strip() is not empty
HasText(text) == \E k \in DOMAIN text : text[k].cls # "s"

\* the chunks of a text that get_embedding is called with
RECURSIVE CleanAll(_)
CleanAll(chunks) ==
    IF chunks = << >> THEN << >>
    ELSE LET c == clean_chunk(Head(chunks))
         IN  (IF is_valid_chunk(c) THEN <<TakeChars(c, MAX_CHUNK_LENGTH)>> ELSE << >>)
             \o CleanAll(Tail(chunks))

ChunksToEmbed(text) ==
    IF HasText(text) THEN CleanAll(chunk_text(text, ChunkSize)) ELSE << >>

KbTexts ==
    {<< >>,
     <<Run("s", 3)>>,
     <<Run("x", 2)>>,
     <<Run("w", 498), Run("s", 4), Run("w", 100)>>,
     <<Run("w", 300), Run("x", 1), Run("s", 2), Run("x", 1), Run("s", 1), Run("w", 250)>>,
     <<Run("w", 1000)>>}

\* the listing of the bucket and the urls of the script
KbKeys == <<"a.txt", "b.pdf", "kb_index.json">>
KbUrls == <<"https://en.wikipedia.org/wiki/Amazon_Web_Services",
            "https://w.amazon.com/bin/view/Transportation/Passport/Passport_QA_Process/">>

\* key.strip().lower().endswith(".txt")
IsTxt(key) == key \in {"a.txt"}

\* kb_index.json as it is before the script runs
OldIndex == <<[chunk |-> <<Run("w", 10)>>, embedding |-> EmbeddingOf("old"),
               source |-> "old.txt"]>>

KbIdle ==
    [pc |-> "list", todo |-> << >>, urls |-> KbUrls, pending |-> << >>,
     source |-> "", tried |-> << >>, kb_index |-> << >>, stored |-> << >>,
     calls |-> << >>, escaped |-> FALSE]

KbFrame ==
    UNCHANGED <<routeVars, chatVars, genVars, embVars, defectVars, preVars, healVars,
                moreVars>>

\* where the script goes on
KbGo(k) ==
    [k EXCEPT !.pc = IF k.pending # << >> THEN "embed"
                     ELSE IF k.todo # << >> THEN "file"
                     ELSE IF k.urls # << >> THEN "web"
                     ELSE "save"]

\* an exception at module level ends the script
KbCrash(k, call) ==
    [k EXCEPT !.pc = "done", !.escaped = TRUE, !.calls = Append(@, call)]

\* objects = s3.list_objects_v2(Bucket=bucket)
KbList ==
    /\ kbi.pc = "list"
    /\ \/ kbi' = KbGo([kbi EXCEPT !.todo = KbKeys, !.calls = Append(@, "list_objects_v2")])
       \/ kbi' = KbGo([kbi EXCEPT !.todo = << >>, !.calls = Append(@, "list_objects_v2")])
       \/ kbi' = KbCrash(kbi, "list_objects_v2")
    /\ KbFrame

\* for obj in objects.get("Contents", []): up to the chunks of the file
KbFile ==
    /\ kbi.pc = "file"
    /\ LET key == Head(kbi.todo)
           k == [kbi EXCEPT !.todo = Tail(@)]
       IN  IF key = "kb_index.json" \/ ~IsTxt(key)
           THEN kbi' = KbGo(k)
           ELSE \/ \E text \in KbTexts :
                     kbi' = KbGo([k EXCEPT !.pending = ChunksToEmbed(text),
                                           !.source = key,
                                           !.calls = Append(@, "get_object")])
                \/ kbi' = KbCrash(k, "get_object")
    /\ KbFrame

\* for url in urls: text = scrape_webpage(url), "" when the request failed
KbWeb ==
    /\ kbi.pc = "web"
    /\ LET url == Head(kbi.urls)
           k == [kbi EXCEPT !.urls = Tail(@), !.source = url,
                            !.calls = Append(@, "requests.get")]
       IN  \E text \in KbTexts : kbi' = KbGo([k EXCEPT !.pending = ChunksToEmbed(text)])
    /\ KbFrame

\* embedding = get_embedding(chunk); if embedding is not None: kb_index.append
KbEmbed ==
    /\ kbi.pc = "embed"
    /\ LET chunk == Head(kbi.pending)
           k == [kbi EXCEPT !.pending = Tail(@), !.calls = Append(@, "get_embedding")]
       IN  \E embedding \in {EmbeddingOf("chunk"), NoEmbedding} :
             kbi' = KbGo([k EXCEPT
                 !.tried = Append(@, [chunk |-> chunk, embedding |-> embedding,
                                      source |-> kbi.source]),
                 !.kb_index = IF embedding # NoEmbedding
                              THEN Append(@, [chunk |-> chunk, embedding |-> embedding,
                                              source |-> kbi.source])
                              ELSE @])
    /\ KbFrame

\* if kb_index: s3.put_object(Key="kb_index.json"), a failure only printed
KbSave ==
    /\ kbi.pc = "save"
    /\ IF kbi.kb_index # << >>
       THEN \/ kbi' = [kbi EXCEPT !.pc = "done", !.stored = kbi.kb_index,
                                  !.calls = Append(@, "put_object")]
            \/ kbi' = [kbi EXCEPT !.pc = "done", !.calls = Append(@, "put_object")]
       ELSE kbi' = [kbi EXCEPT !.pc = "done"]
    /\ KbFrame

KbInit == \E old \in {<< >>, OldIndex} : kbi = [KbIdle EXCEPT !.stored = old]

(***************************************************************************)
(* The project-context preprocessing of the defect agent                   *)
(* (src/mcp_defect_agent/RAGPreprocessingScript.py)                        *)
(* WEB_SOURCES is the list the operator configures; it is modelled with    *)
(* two sources.  proj.disk is etag_cache.json, proj.index the documents of *)
(* the OpenSearch index; both outlive the runs.                            *)
(***************************************************************************)
MaxProjRuns == 2

WEB_SOURCES == <<"https://example.com/project-spec", "https://example.com/policy">>
WebUrls == {WEB_SOURCES[k] : k \in DOMAIN WEB_SOURCES}

\* the values of an ETag header, "<None>" when the response has none
ETagHeaders == {"<None>", "e1", "e2"}

\* what requests.get can give: an exception, or a status with its ETag header
WebAnswers ==
    [kind : {"error"}, status : {0}, etag : {"<None>"}]
    \cup [kind : {"response"}, status : {304, 404}, etag : {"<None>"}]
    \cup [kind : {"response"}, status : {200}, etag : ETagHeaders]

EmptyCache == [u \in WebUrls |-> "<absent>"]

ProjIdle ==
    [pc |-> "idle", run |-> 0, etag_cache |-> EmptyCache, disk |-> EmptyCache,
     todo |-> << >>, index |-> << >>, log |-> << >>, calls |-> << >>,
     escaped |-> FALSE]

ProjFrame ==
    UNCHANGED <<routeVars, chatVars, genVars, embVars, defectVars, preVars, healVars,
                kbVars, pine, loc>>

\* the documents of the index that come from url
DocsOfUrl(index, url) == SelectSeq(index, LAMBDA d : d.url = url)

\* an exception outside every try block ends the script
ProjCrash(r, call) ==
    [r EXCEPT !.pc = "done", !.escaped = TRUE, !.calls = Append(@, call)]

\* for filename in os.listdir(DATA_DIR): the documents of the data directory
ProjFiles ==
    /\ proj.pc \in {"idle", "done"}
    /\ proj.run < MaxProjRuns
    /\ LET r == [ProjIdle EXCEPT !.run = proj.run + 1, !.disk = proj.disk,
                                 !.index = proj.index]
       IN  \/ proj' = [r EXCEPT !.pc = "load", !.calls = Append(@, "add_texts"),
                                !.index = Append(@, [url |-> "", type |-> "document",
                                                     run |-> r.run])]
           \/ proj' = ProjCrash(r, "add_texts")
    /\ ProjFrame

\* etag_cache = load_etag_cache()
ProjLoad ==
    /\ proj.pc = "load"
    /\ \/ proj' = [proj EXCEPT !.pc = IF WEB_SOURCES = << >> THEN "save" ELSE "web",
                               !.etag_cache = proj.disk, !.todo = WEB_SOURCES]
       \/ proj' = ProjCrash(proj, "load_etag_cache")
    /\ ProjFrame

\* for source in WEB_SOURCES: the request and what is made of its answer
ProjSource ==
    /\ proj.pc = "web"
    /\ LET url == Head(proj.todo)
           sent == proj.etag_cache[url]
           r == [proj EXCEPT !.todo = Tail(@),
                             !.pc = IF Tail(proj.todo) = << >> THEN "save" ELSE "web",
                             !.calls = Append(@, "requests.get")]
           Logged(q, a, added) ==
               [q EXCEPT !.log = Append(@, [url |-> url, sent |-> sent, answer |-> a,
                                            before |-> proj.etag_cache[url],
                                            after |-> q.etag_cache[url],
                                            n0 |-> Len(DocsOfUrl(proj.index, url)),
                                            n1 |-> Len(DocsOfUrl(q.index, url)),
                                            add_texts |-> added])]
       IN  \E a \in WebAnswers :
             IF a.kind = "error" \/ a.status # 200
             THEN \* except Exception, continue on 304, or the else branch
                  proj' = Logged(r, a, "")
             ELSE LET q == [r EXCEPT !.etag_cache[url] =
                                        IF a.etag # "<None>" THEN a.etag ELSE @,
                                     !.calls = Append(@, "add_texts")]
                  IN  \/ proj' = Logged([q EXCEPT !.index =
                                           Append(@, [url |-> url, type |-> "web",
                                                      run |-> proj.run])],
                                        a, "returned")
                      \/ \* add_texts raises: except Exception as e
                         proj' = Logged(q, a, "raised")
    /\ ProjFrame

\* save_etag_cache(etag_cache)
ProjSaveCache ==
    /\ proj.pc = "save"
    /\ \/ proj' = [proj EXCEPT !.pc = "done", !.disk = proj.etag_cache]
       \/ proj' = ProjCrash(proj, "save_etag_cache")
    /\ ProjFrame

ProjInit == proj = ProjIdle

(***************************************************************************)
(* The Pinecone preprocessing, chunk by chunk                              *)
(* (src/RAGChatbots/Pinecone_Implementation/RAGPreprocessingScript.py)     *)
(* A run is main(event): the S3 branch for a.txt or the web branch for the *)
(* urls.  For every chunk get_embedding runs its attempts, then the caller *)
(* upserts the vector.  pineIndex outlives the runs; pine.content is what  *)
(* a source held when it was last read.                                    *)
(***************************************************************************)
MaxPineRuns == 2

PineKeys == <<"a.txt">>
PineUrls == <<"https://en.wikipedia.org/wiki/Amazon_Web_Services",
              "https://w.amazon.com/bin/view/Transportation/Passport/Passport_QA_Process/">>
PineSources == {PineKeys[k] : k \in DOMAIN PineKeys} \cup {PineUrls[k] : k \in DOMAIN PineUrls}

PineTexts ==
    {<< >>,
     <<Run("w", 300)>>,
     <<Run("w", 1000)>>,
     <<Run("w", 500), Run("s", 500), Run("w", 10)>>}

\* what bedrock.invoke_model does in one attempt
PineOutcomes == {"ok", "ThrottlingException", "ValidationException", "Exception"}

\* for i, chunk in enumerate(chunk_text(text)): the chunks get_embedding is
\* called with, each with its i
PineChunks(text) ==
    LET raw == chunk_text(text, ChunkSize)
        all == [k \in DOMAIN raw |->
                   [i |-> k - 1,
                    chunk |-> TakeChars(clean_chunk(raw[k]), MAX_CHUNK_LENGTH)]]
    IN  IF HasText(text)
        THEN SelectSeq(all, LAMBDA e : is_valid_chunk(clean_chunk(raw[e.i + 1])))
        ELSE << >>

\* vector_id = f"{key}:{i}" and the vector of the upsert
PineVector(source, e, embedding) ==
    [id |-> <<source, ":", e.i>>, values |-> embedding, chunk |-> e.chunk,
     source |-> source]

NoLast == [i |-> -1]

PineIdle ==
    [pc |-> "idle", run |-> 0, kind |-> "", sources |-> << >>, source |-> "",
     chunks |-> << >>, attempt |-> 0, delay |-> InitialDelay, outcomes |-> << >>,
     sleeps |-> << >>, result |-> NoEmbedding, last |-> NoLast,
     content |-> [q \in PineSources |-> << >>],
     clean |-> [q \in PineSources |-> TRUE],
     processed |-> {}, escaped |-> FALSE]

PineFrame ==
    UNCHANGED <<routeVars, genVars, embVars, defectVars, preVars, healVars, kbVars,
                proj, loc, handler, inv, historyTable, committed, version, started>>

\* where main goes on: the next chunk, the next source, or the end
PineGo(r) ==
    [r EXCEPT !.pc = IF r.chunks # << >> THEN "attempt"
                     ELSE IF r.sources # << >> THEN "fetch" ELSE "done",
              !.attempt = 0, !.delay = InitialDelay, !.outcomes = << >>,
              !.sleeps = << >>, !.result = NoEmbedding]

PineCrash(r) == [r EXCEPT !.pc = "done", !.escaped = TRUE]

\* main(event): is_s3_trigger chooses the branch; s3.list_objects_v2
PineMain ==
    /\ pine.pc \in {"idle", "done"}
    /\ pine.run < MaxPineRuns
    /\ LET r == [PineIdle EXCEPT !.run = pine.run + 1, !.content = pine.content,
                                 !.clean = pine.clean, !.processed = pine.processed]
       IN  \/ pine' = PineGo([r EXCEPT !.kind = "s3", !.sources = PineKeys])
           \/ pine' = PineCrash([r EXCEPT !.kind = "s3"])
           \/ pine' = PineGo([r EXCEPT !.kind = "web", !.sources = PineUrls])
    /\ UNCHANGED pineIndex
    /\ PineFrame

\* s3.get_object and decode, or scrape_webpage: the text of the source
PineFetch ==
    /\ pine.pc = "fetch"
    /\ LET source == Head(pine.sources)
           r == [pine EXCEPT !.sources = Tail(@), !.source = source, !.last = NoLast]
       IN  \/ \E text \in PineTexts :
                pine' = PineGo([r EXCEPT !.chunks = PineChunks(text),
                                         !.content[source] = text,
                                         !.clean[source] = TRUE,
                                         !.processed = @ \cup {source}])
           \/ /\ pine.kind = "s3"
              /\ pine' = PineCrash(r)
    /\ UNCHANGED pineIndex
    /\ PineFrame

\* get_embedding: one pass of the loop body, bedrock.invoke_model
PineAttempt ==
    /\ pine.pc = "attempt"
    /\ pine.attempt < MaxRetries
    /\ \E o \in PineOutcomes :
         pine' = [pine EXCEPT
                    !.attempt = @ + 1,
                    !.last = NoLast,
                    !.outcomes = Append(@, o),
                    !.pc = IF o # "ok" /\ Retryable(o) THEN "sleep" ELSE "return",
                    !.result = IF o = "ok" THEN EmbeddingOf(Head(pine.chunks).chunk)
                               ELSE NoEmbedding]
    /\ UNCHANGED pineIndex
    /\ PineFrame

\* get_embedding: time.sleep(delay); delay *= 2; the loop ends after max_retries
PineSleep ==
    /\ pine.pc = "sleep"
    /\ pine' = [pine EXCEPT !.sleeps = Append(@, pine.delay),
                            !.delay = NextDelay(@),
                            !.pc = IF pine.attempt < MaxRetries
                                   THEN "attempt" ELSE "return"]
    /\ UNCHANGED pineIndex
    /\ PineFrame

\* embedding = get_embedding(chunk); if embedding is not None: index.upsert;
\* an exception of the upsert is only printed; then the next chunk
PineReturn ==
    /\ pine.pc = "return"
    /\ LET e == Head(pine.chunks)
           Next(upserted) ==
               PineGo([pine EXCEPT
                   !.chunks = Tail(@),
                   !.clean[pine.source] = @ /\ upserted,
                   !.last = [i |-> e.i, outcomes |-> pine.outcomes,
                             sleeps |-> pine.sleeps, result |-> pine.result,
                             upserted |-> upserted, before |-> pineIndex,
                             rest |-> Tail(pine.chunks)]])
       IN  IF pine.result # NoEmbedding
           THEN \/ /\ pineIndex' = PineUpsert(pineIndex,
                                              PineVector(pine.source, e, pine.result))
                   /\ pine' = Next(TRUE)
                \/ /\ UNCHANGED pineIndex
                   /\ pine' = Next(FALSE)
           ELSE /\ UNCHANGED pineIndex
                /\ pine' = Next(FALSE)
    /\ PineFrame

PineInit ==
    /\ pine = PineIdle
    /\ handler = "off"
    /\ inv = [p \in Procs |-> IdleInv]
    /\ historyTable = [s \in Sessions |-> << >>]
    /\ pineIndex = {}
    /\ committed = [s \in Sessions |-> << >>]
    /\ version = [s \in Sessions |-> 0]
    /\ started = 0

(***************************************************************************)
(* Locator extraction: mcp_agent_lambda.extract_new_locator and the        *)
(* parsing of its result by selenium_script.py.  Texts are sequences of    *)
(* characters; loc is one model reply on its way from the Lambda to the    *)
(* re-run of the test.                                                     *)
(***************************************************************************)
\* \w, \s and the quotes of the pattern, over the characters of the replies
WordChars  == {"B", "y", "I", "D", "q"}
SpaceChars == {" "}
QuoteChars == {"\"", "'"}
Chars      == WordChars \cup SpaceChars \cup QuoteChars \cup {".", ",", "/"}

\* the number of characters of s from position p on that are in cls: a greedy
\* repetition of the pattern
RECURSIVE RunIn(_, _, _)
RunIn(s, p, cls) ==
    IF p > Len(s) \/ s[p] \notin cls THEN 0 ELSE 1 + RunIn(s, p + 1, cls)

NoMatch == [ok |-> FALSE, type |-> << >>, value |-> << >>]

\* the pattern By\.(\w+)\s*,\s*["\']([^"\']+)["\'] matched at position p
MatchAt(s, p) ==
    LET t  == p + 3
        nt == RunIn(s, t, WordChars)
        a  == t + nt + RunIn(s, t + nt, SpaceChars)
        b  == a + 1 + RunIn(s, a + 1, SpaceChars)
        v  == b + 1
        nv == RunIn(s, v, Chars \ QuoteChars)
        e  == v + nv
    IN  IF /\ p + 2 <= Len(s)
           /\ SubSeq(s, p, p + 2) = <<"B", "y", ".">>
           /\ nt >= 1
           /\ a <= Len(s) /\ s[a] = ","
           /\ b <= Len(s) /\ s[b] \in QuoteChars
           /\ nv >= 1
           /\ e <= Len(s)
        THEN [ok |-> TRUE, type |-> SubSeq(s, t, t + nt - 1),
              value |-> SubSeq(s, v, e - 1)]
        ELSE NoMatch

\* re.search: the match at the leftmost position that has one
ReSearch(s) ==
    LET ps == {p \in 1..Len(s) : MatchAt(s, p).ok}
    IN  IF ps = {} THEN NoMatch
        ELSE MatchAt(s, CHOOSE p \in ps : \A o \in ps : p <= o)

NoLocator == <<"<None>">>

\* f'By.{match.group(1)}, "{match.group(2)}"'
FormatLocator(type, value) ==
    <<"B", "y", ".">> \o type \o <<",", " ", "\"">> \o value \o <<"\"">>

extract_new_locator(model_response) ==
    LET match == ReSearch(model_response)
    IN  IF match.ok THEN FormatLocator(match.type, match.value) ELSE NoLocator

\* new_locator.replace('By.', '')
RECURSIVE RemoveBy(_)
RemoveBy(s) ==
    IF s = << >> THEN << >>
    ELSE IF Len(s) >= 3 /\ SubSeq(s, 1, 3) = <<"B", "y", ".">>
         THEN RemoveBy(SubSeq(s, 4, Len(s)))
         ELSE <<Head(s)>> \o RemoveBy(Tail(s))

\* s.strip(cls): the characters of cls taken off both ends
RECURSIVE LStripChars(_, _)
LStripChars(s, cls) ==
    IF s # << >> /\ Head(s) \in cls THEN LStripChars(Tail(s), cls) ELSE s

RECURSIVE RStripChars(_, _)
RStripChars(s, cls) ==
    IF s # << >> /\ s[Len(s)] \in cls
    THEN RStripChars(SubSeq(s, 1, Len(s) - 1), cls) ELSE s

StripChars(s, cls) == RStripChars(LStripChars(s, cls), cls)

\* if new_locator: ... not (count(",") < 1 or strip() in ("", "N/A"))
LocatorApplied(new_locator) ==
    /\ new_locator \notin {NoLocator, << >>}
    /\ \E k \in 1..Len(new_locator) : new_locator[k] = ","
    /\ StripChars(new_locator, SpaceChars) \notin {<< >>, <<"N", "/", "A">>}

\* by, value = new_locator.replace('By.', '').split(',', 1); by.strip();
\* value.strip().strip('"').strip("'"); a text without a comma left raises
SplitLocator(new_locator) ==
    LET s  == RemoveBy(new_locator)
        ks == {k \in 1..Len(s) : s[k] = ","}
        k  == CHOOSE c \in ks : \A o \in ks : c <= o
    IN  IF ks = {} THEN [ok |-> FALSE, by |-> << >>, value |-> << >>]
        ELSE [ok |-> TRUE,
              by |-> StripChars(SubSeq(s, 1, k - 1), SpaceChars),
              value |-> StripChars(StripChars(StripChars(
                            SubSeq(s, k + 1, Len(s)), SpaceChars), {"\""}), {"'"})]

\* pieces of model replies, and the replies made of two of them
ReplyPieces ==
    { << >>,
      <<"q", " ">>,
      <<"B", "y", ".", "I", " ">>,
      <<"B", "y", ".", "I", "D", ",", " ", "\"", "q", "\"">>,
      <<"B", "y", ".", "I", ",", "'", "q", ",", "q", "'", " ">>,
      <<"B", "y", ".", "D", " ", ",", " ", "'", "D", "'">>,
      <<"B", "y", ".", "I", ",", " ", "\"", "/", "'", "q", "'", "\"">>,
      <<"B", "y", ".", "I", ",", " ", "\"", "B", "y", ".", "q", "\"">>,
      <<"B", "y", ".", "I", ",", "\"", "q", "'", " ">>,
      <<"I", ",", " ", "\"", "q", "\"">> }

ModelReplies == {a \o b : a \in ReplyPieces, b \in ReplyPieces}

LocIdle ==
    [pc |-> "invoke", suggestion |-> << >>, new_locator |-> NoLocator,
     status |-> 0, reran |-> FALSE, by |-> << >>, value |-> << >>]

LocFrame ==
    UNCHANGED <<routeVars, chatVars, genVars, embVars, defectVars, preVars, healVars,
                kbVars, proj, pine>>

\* lambda_handler of the healing Lambda: the model's suggestion and the
\* locator extracted from it, or a 500 when anything raised
LocLambda ==
    /\ loc.pc = "invoke"
    /\ \/ loc' = [loc EXCEPT !.pc = "answered", !.status = 200,
                             !.new_locator = extract_new_locator(loc.suggestion)]
       \/ loc' = [loc EXCEPT !.pc = "answered", !.status = 500]
    /\ LocFrame

\* the script's handling of the answer: the locator is parsed and the test
\* run again, or nothing is done
LocScript ==
    /\ loc.pc = "answered"
    /\ LET p == SplitLocator(loc.new_locator)
       IN  IF LocatorApplied(loc.new_locator) /\ p.ok
           THEN loc' = [loc EXCEPT !.pc = "done", !.reran = TRUE,
                                   !.by = p.by, !.value = p.value]
           ELSE loc' = [loc EXCEPT !.pc = "done"]
    /\ LocFrame

LocInit == \E r \in ModelReplies : loc = [LocIdle EXCEPT !.suggestion = r]

ChatInit(handlers) ==
    /\ handler \in handlers
    /\ inv = [p \in Procs |-> IdleInv]
    /\ historyTable = [s \in Sessions |-> << >>]
    /\ pineIndex = {KbVector(c) : c \in ChatKb}
    /\ committed = [s \in Sessions |-> << >>]
    /\ version = [s \in Sessions |-> 0]
    /\ started = 0

ChatOff == ChatInit({"off"})

\* a stored history of n turns, left by n successful invocations
StoredHistory(n) == [k \in 1..n |-> Turn(Text("t" \o ToString(k), 5), "r1")]

\* the chatbot handlers on sessions that already have a history
HistInit ==
    /\ handler \in Handlers
    /\ inv = [p \in Procs |-> IdleInv]
    /\ \E a \in {0, 12}, b \in {0, 9, 10, 11} :
          historyTable = [s \in Sessions |->
                             StoredHistory(IF s = "default" THEN a ELSE b)]
    /\ committed = historyTable
    /\ pineIndex = {KbVector(c) : c \in ChatKb}
    /\ version = [s \in Sessions |-> 0]
    /\ started = 0

RouteOff == rt = RouteIdle

GenOff == gen = [pc |-> "off"] /\ genTable = [k \in {} |-> << >>] /\ genIds = 0

EmbOff == emb = [pc |-> "off"]

DefectOff == dfct = [pc |-> "off"] /\ defectTable = {} /\ clock = 0

PreOff == pre = [pc |-> "off"] /\ bucket = << >> /\ osIndex = {}

HealOff == heal = [pc |-> "off"]

KbOff == kbi = [pc |-> "off"]

ProjOff == proj = [pc |-> "off"]

LocOff == loc = [pc |-> "off"]

PineOff == pine = [pc |-> "off"]

MoreOff == ProjOff /\ PineOff /\ LocOff

ExtOff == PreOff /\ HealOff /\ KbOff /\ MoreOff

(***************************************************************************)
(* Specifications                                                          *)
(***************************************************************************)
\* ai_agent_route on every list of at most TopK matches
SpecRouteInit == RouteInit /\ ChatOff /\ GenOff /\ EmbOff /\ DefectOff /\ ExtOff
SpecRouteNext == RouteCall
SpecRoute == SpecRouteInit /\ [][SpecRouteNext]_vars

\* one chatbot handler, its invocations one after another
Init == RouteOff /\ ChatInit(Handlers) /\ GenOff /\ EmbOff /\ DefectOff /\ ExtOff
Next ==
    \/ Start(1, Events)
    \/ S3Get(1)
    \/ Embed(1)
    \/ Query(1)
    \/ Search(1, SearchOutcomes)
    \/ Embed2(1)
    \/ Upsert(1)
    \/ GetHistory(1)
    \/ Claude(1, Responses)
    \/ SaveHistory(1)
Spec == Init /\ [][Next]_vars

ConcEvents == [prompt : Prompts, session_id : {"<missing>", "s1"}]

\* the chatbot handlers on stored histories, invocations one after another
SpecHistInit == RouteOff /\ HistInit /\ GenOff /\ EmbOff /\ DefectOff /\ ExtOff
SpecHistNext ==
    \/ Start(1, ConcEvents)
    \/ S3Get(1)
    \/ Embed(1)
    \/ Query(1)
    \/ Search(1, {"items"})
    \/ Embed2(1)
    \/ Upsert(1)
    \/ GetHistory(1)
    \/ Claude(1, {"r1"})
    \/ SaveHistory(1)
SpecHist == SpecHistInit /\ [][SpecHistNext]_vars

\* the agentic handler on two Lambda instances at once
SpecConcInit == RouteOff /\ ChatInit({"agentic"}) /\ GenOff /\ EmbOff /\ DefectOff /\ ExtOff
SpecConcNext ==
    \E p \in Procs :
        \/ Start(p, ConcEvents)
        \/ Embed(p)
        \/ Query(p)
        \/ Search(p, {"items"})
        \/ Embed2(p)
        \/ Upsert(p)
        \/ GetHistory(p)
        \/ Claude(p, {"r1"})
        \/ SaveHistory(p)
SpecConc == SpecConcInit /\ [][SpecConcNext]_vars

\* the test-case generator, its invocations one after another
SpecGenInit == RouteOff /\ ChatOff /\ GenInit /\ EmbOff /\ DefectOff /\ ExtOff
SpecGenNext ==
    \/ GenStart
    \/ GenRetrieve
    \/ GenGetHistory
    \/ GenGenerate
    \/ GenValidate
    \/ GenSaveHistory
SpecGen == SpecGenInit /\ [][SpecGenNext]_vars

\* one call of get_embedding
SpecEmbedInit == RouteOff /\ ChatOff /\ GenOff /\ EmbInit /\ DefectOff /\ ExtOff
SpecEmbedNext ==
    \/ EmbAttempt
    \/ EmbSleep
    \/ EmbGiveUp
SpecEmbed == SpecEmbedInit /\ [][SpecEmbedNext]_vars

\* the defect agent, its reports handled one after another
SpecDefectInit == RouteOff /\ ChatOff /\ GenOff /\ EmbOff /\ DefectInit /\ ExtOff
SpecDefectNext ==
    \/ DefectStart(1)
    \/ DefectScan(1)
    \/ DefectContext(1)
    \/ DefectLlm(1)
    \/ DefectPutItem(1)
    \/ DefectJira(1)
SpecDefect == SpecDefectInit /\ [][SpecDefectNext]_vars

\* the defect agent with two invocations at a time
SpecDefectConcNext ==
    \E p \in DefectProcs :
        \/ DefectStartOf(p, RaceEvents)
        \/ DefectScan(p)
        \/ DefectContext(p)
        \/ DefectLlm(p)
        \/ DefectPutItem(p)
        \/ DefectJira(p)
SpecDefectConc == SpecDefectInit /\ [][SpecDefectConcNext]_vars

\* the defect agent with two callers whose reports are handled one after
\* another: the record of the invocation before stays while the next one runs
DefectStartAlone(p) ==
    /\ \A q \in DefectProcs : ~DefectRunning(q)
    /\ DefectStartOf(p, RaceEvents)
SpecDefectSeqNext ==
    \E p \in DefectProcs :
        \/ DefectStartAlone(p)
        \/ DefectScan(p)
        \/ DefectContext(p)
        \/ DefectLlm(p)
        \/ DefectPutItem(p)
        \/ DefectJira(p)
SpecDefectSeq == SpecDefectInit /\ [][SpecDefectSeqNext]_vars

\* a preprocessing handler, its runs one after another, the bucket changing
\* between them
SpecPreInit ==
    RouteOff /\ ChatInit(PreHandlers) /\ GenOff /\ EmbOff /\ DefectOff
    /\ PreInit /\ HealOff /\ KbOff /\ MoreOff
SpecPreNext ==
    \/ S3Put
    \/ PreMain
    \/ PreDirect
    \/ PreList
    \/ PreFileOs
    \/ PreFileGen
    \/ PreFilePine
    \/ PreWebOs
    \/ PreWebPine
SpecPre == SpecPreInit /\ [][SpecPreNext]_vars

\* the handlers that answer requests: one of the chatbots, the test-case
\* generator or the defect agent, its invocations one after another
SpecHandlersInit ==
    /\ RouteOff /\ EmbOff /\ ExtOff
    /\ \/ ChatInit(Handlers) /\ GenOff /\ DefectOff
       \/ ChatOff /\ GenInit /\ DefectOff
       \/ ChatOff /\ GenOff /\ DefectInit
SpecHandlersNext ==
    \/ handler # "off" /\ Next
    \/ handler = "off" /\ gen.pc # "off" /\ SpecGenNext
    \/ handler = "off" /\ gen.pc = "off" /\ SpecDefectNext
SpecHandlers == SpecHandlersInit /\ [][SpecHandlersNext]_vars

\* one run of the script that builds kb_index.json
SpecKbInit ==
    /\ RouteOff /\ ChatOff /\ GenOff /\ EmbOff /\ DefectOff /\ PreOff /\ HealOff /\ KbInit
    /\ MoreOff
SpecKbNext ==
    \/ KbList
    \/ KbFile
    \/ KbWeb
    \/ KbEmbed
    \/ KbSave
SpecKb == SpecKbInit /\ [][SpecKbNext]_vars

\* the project-context preprocessing, run again and again
SpecProjInit ==
    /\ RouteOff /\ ChatOff /\ GenOff /\ EmbOff /\ DefectOff /\ PreOff /\ HealOff /\ KbOff
    /\ ProjInit /\ PineOff /\ LocOff
SpecProjNext ==
    \/ ProjFiles
    \/ ProjLoad
    \/ ProjSource
    \/ ProjSaveCache
SpecProj == SpecProjInit /\ [][SpecProjNext]_vars

\* the Pinecone preprocessing chunk by chunk, run again and again
SpecPineInit ==
    /\ RouteOff /\ GenOff /\ EmbOff /\ DefectOff /\ PreOff /\ HealOff /\ KbOff
    /\ ProjOff /\ LocOff /\ PineInit
SpecPineNext ==
    \/ PineMain
    \/ PineFetch
    \/ PineAttempt
    \/ PineSleep
    \/ PineReturn
SpecPine == SpecPineInit /\ [][SpecPineNext]_vars

\* one model reply from the healing Lambda to the re-run of the test
SpecLocInit ==
    /\ RouteOff /\ ChatOff /\ GenOff /\ EmbOff /\ DefectOff /\ PreOff /\ HealOff /\ KbOff
    /\ ProjOff /\ PineOff /\ LocInit
SpecLocNext ==
    \/ LocLambda
    \/ LocScript
SpecLoc == SpecLocInit /\ [][SpecLocNext]_vars

\* the self-healing script, run again and again
SpecHealInit ==
    /\ RouteOff /\ ChatOff /\ GenOff /\ EmbOff /\ DefectOff /\ PreOff /\ HealInit /\ KbOff
    /\ MoreOff
SpecHealNext ==
    \/ HealRunTest
    \/ HealPost
    \/ HealRerun
    \/ HealSave
SpecHeal == SpecHealInit /\ [][SpecHealNext]_vars

(***************************************************************************)
(* Claims                                                                  *)
(***************************************************************************)
Count(seq, x) == Cardinality({k \in DOMAIN seq : seq[k] = x})

\* the position of the first x in seq, 0 when there is none
Pos(seq, x) ==
    IF \E k \in DOMAIN seq : seq[k] = x
    THEN CHOOSE k \in DOMAIN seq : seq[k] = x /\ \A j \in 1..(k - 1) : seq[j] # x
    ELSE 0

IsInternalHit(m) == m.source # "web" /\ m.score >= ScoreThreshold
IsWebHit(m) == m.source = "web" /\ m.score >= ScoreThreshold

C2_AgenticWebFallback ==
    handler = "agentic" =>
        \A p \in Procs :
            LET i == inv[p]
            IN  /\ Count(i.calls, "google_search") <= 1
                /\ Len(i.upserted) <= 1
                /\ (i.agent_route = "none" /\
                    (i.pc \in {"get_history", "claude", "save_history"}
                        \/ Count(i.calls, "claude") > 0)) =>
                       /\ Count(i.calls, "google_search") = 1
                       /\ Count(i.calls, "upsert") = 1
                       /\ Pos(i.calls, "google_search") < Pos(i.calls, "upsert")
                       /\ Count(i.calls, "claude") > 0 =>
                              Pos(i.calls, "upsert") < Pos(i.calls, "claude")
                       /\ Len(i.upserted) = 1
                       /\ i.upserted[1].source = "web"
                       /\ i.upserted[1].chunk =
                              Truncate(i.search_result, MAX_EMBEDDING_LENGTH)
                       /\ i.upserted[1] \in pineIndex
                /\ (i.agent_route = "none" /\ i.status = 200) => i.body.route = "web"
                /\ i.agent_route \in {"internal", "web"} =>
                       /\ Count(i.calls, "google_search") = 0
                       /\ Count(i.calls, "upsert") = 0
                       /\ i.upserted = << >>
                       /\ i.status = 200 => i.body.route = i.agent_route

\* a 200 response after the fallback cached a search result longer than 2048
C2_Witness ==
    /\ handler = "agentic"
    /\ \E p \in Procs :
         /\ inv[p].status = 200
         /\ inv[p].agent_route = "none"
         /\ inv[p].search_result.len > MAX_EMBEDDING_LENGTH

\* C3: every handler that takes a prompt answers a missing or empty prompt
\* with 400 'No prompt provided' and makes no client call in that invocation.
C3_MissingPromptRejected ==
    \A p \in Procs :
        (inv[p].pc # "idle" /\ inv[p].prompt.len = 0) =>
            /\ inv[p].calls = << >>
            /\ inv[p].status = 400
            /\ inv[p].body = [error |-> "No prompt provided"]

\* C5: an exception raised by any client call of a chatbot invocation gives a
\* 500 response whose body carries the exception text; none escapes the handler.
C5_DownstreamExceptionGives500 ==
    \A p \in Procs :
        /\ ~inv[p].escaped
        /\ (inv[p].pc = "done" /\ inv[p].raised # "") =>
               /\ inv[p].status = 500
               /\ inv[p].body = [error |-> inv[p].raised]

\* C7: with invocations one after another, an invocation that returned 200 for
\* session s left the stored history of s equal to the history it read followed
\* by the one turn {user: prompt, bot: response}; the stored history of every
\* session is the turns of its successful invocations in invocation order, so
\* no invocation touches the item of another session.
C7_HistoryAppendOnly ==
    /\ \A s \in Sessions : historyTable[s] = committed[s]
    /\ \A p \in Procs :
         (inv[p].status = 200 /\ handler # "simple") =>
             historyTable[inv[p].session_id] =
                 Append(inv[p].history_read, Turn(inv[p].prompt, inv[p].response_text))

\* two successful invocations of session s1 with different turns, the other
\* session still without history
C7_Witness ==
    /\ Len(committed["s1"]) = 2
    /\ committed["s1"][1] # committed["s1"][2]
    /\ inv[1].status = 200
    /\ inv[1].session_id = "s1"

\* both read the same stored version, both returned 200, q wrote last
Overlapped(p, q) ==
    /\ p # q
    /\ inv[p].status = 200
    /\ inv[q].status = 200
    /\ inv[p].session_id = inv[q].session_id
    /\ inv[p].readVer = inv[q].readVer
    /\ inv[p].wroteVer < inv[q].wroteVer
    /\ version[inv[q].session_id] = inv[q].wroteVer

\* C8: save_history overwrites the session item unconditionally: when two
\* invocations of one session both read the history before either wrote it and
\* both returned 200, the stored history is the list the later put_item wrote,
\* the common history plus the later writer's turn alone.
C8_LostUpdate ==
    \A p, q \in Procs :
        Overlapped(p, q) =>
            /\ inv[p].history_read = inv[q].history_read
            /\ historyTable[inv[q].session_id] =
                   Append(inv[q].history_read, Turn(inv[q].prompt, inv[q].response_text))
            /\ Len(historyTable[inv[q].session_id]) = Len(inv[p].history_read) + 1

\* two overlapping invocations with different turns
C8_Witness ==
    \E p, q \in Procs :
        /\ Overlapped(p, q)
        /\ Turn(inv[p].prompt, inv[p].response_text)
               # Turn(inv[q].prompt, inv[q].response_text)

\* the event body is empty, is not valid JSON, or its JSON has no non-empty
\* 'document' field
GenBadInput(ev) ==
    \/ ev.kind \in {"missing", "empty", "invalid_json", "json_non_object"}
    \/ ev.kind = "json_object" /\ (ev.document = Missing \/ ev.document.len = 0)

\* C4: the test-case generator answers 400 and makes no KB retrieval, Bedrock
\* call, history read or history write whenever the event body is empty, is
\* not valid JSON, or its JSON has no non-empty 'document' field.
C4_BadInputRejected ==
    (gen.pc = "done" /\ GenBadInput(gen.event)) =>
        /\ gen.status = 400
        /\ gen.calls = << >>

\* C6: the generator returns 200 only after the generation call and then the
\* validation call succeeded; the body holds exactly sessionId, testCases (the
\* generation text) and validationFeedback (the validation text); sessionId is
\* the request's sessionId when it gave a non-empty one, otherwise the
\* identifier generated in this invocation, and the history is stored under it.
C6_GeneratorResponseShape ==
    gen.status = 200 =>
        /\ gen.generated /\ gen.validated
        /\ Count(gen.calls, "generate") = 1
        /\ Count(gen.calls, "validate") = 1
        /\ Pos(gen.calls, "generate") < Pos(gen.calls, "validate")
        /\ gen.body = [sessionId |-> gen.session_id,
                       testCases |-> gen.response_text,
                       validationFeedback |-> gen.validation_text]
        /\ gen.response_text \in GenResponses
        /\ gen.validation_text \in GenFeedback
        /\ IF gen.event.sessionId \in {"<missing>", ""}
           THEN gen.body.sessionId = Uuid(genIds) /\ gen.uuid = Uuid(genIds)
           ELSE gen.body.sessionId = gen.event.sessionId
        /\ gen.saved =>
               /\ gen.body.sessionId \in DOMAIN genTable
               /\ genTable[gen.body.sessionId] = gen.history
               /\ gen.history[Len(gen.history)]
                      = Turn(gen.extracted_text, gen.response_text)

\* a 200 response for a request with an empty sessionId, stored under the
\* identifier generated for it
C6_Witness ==
    /\ gen.status = 200
    /\ gen.saved
    /\ gen.event.sessionId = ""
    /\ gen.body.sessionId = Uuid(1)
    /\ Uuid(1) \in DOMAIN genTable

RECURSIVE Pow2(_)
Pow2(n) == IF n = 0 THEN 1 ELSE 2 * Pow2(n - 1)

UniquePairs ==
    \A x, y \in defectTable :
        (x.test_name = y.test_name /\ x.error = y.error) => x = y

\* the report of d was answered as a duplicate of an item stored before it
AnsweredDuplicate(d) ==
    /\ d.status = 200
    /\ d.calls = <<"scan">>
    /\ \E it \in d.stored :
         d.body = [message |-> "Duplicate defect. Not logged again.",
                   defect_id |-> it.defect_id]

\* C10 as stated: with reports handled one after another the defect table
\* never holds two items with the same (test_name, error) pair; a report whose
\* pair is already stored is answered with 200 'Duplicate defect. Not logged
\* again.' and the defect_id of the stored item, and causes no LLM call, no
\* put_item and no JIRA request.
C10_DuplicateAlwaysAnswered200 ==
    /\ UniquePairs
    /\ \A p \in DefectProcs :
         LET d == dfct[p]
         IN  d.stored # {} =>
                 /\ \A k \in DOMAIN d.calls : d.calls[k] = "scan"
                 /\ d.pc = "done" => AnsweredDuplicate(d)

\* C10 amended: with reports handled one after another the defect table never
\* holds two items with the same (test_name, error) pair; a report whose pair
\* is already stored causes no LLM call, no put_item and no JIRA request and
\* leaves the stored item in place; it is answered with 200 'Duplicate defect.
\* Not logged again.' and the defect_id of the stored item when the scan
\* returns, and with 500 and the exception text when the scan raises.
C10_NoDuplicateDefect ==
    /\ UniquePairs
    /\ \A p \in DefectProcs :
         LET d == dfct[p]
         IN  d.stored # {} =>
                 /\ \A k \in DOMAIN d.calls : d.calls[k] = "scan"
                 /\ d.stored \subseteq defectTable
                 /\ (d.pc = "done" /\ d.raised = "") => AnsweredDuplicate(d)
                 /\ (d.pc = "done" /\ d.raised # "") =>
                        /\ d.status = 500
                        /\ d.calls = <<"scan">>
                        /\ d.body = [error |-> d.raised]

\* a failure reported a second time was answered as a duplicate while another
\* defect is stored too
C10_Witness ==
    /\ Cardinality(defectTable) = 2
    /\ dfct[1].pc = "done"
    /\ dfct[1].stored # {}
    /\ dfct[1].status = 200
    /\ dfct[1].body.message = "Duplicate defect. Not logged again."

\* the summary the claim describes for a failed summarization
SynthesizedSummary(d) ==
    [title |-> <<FmtName(d.test_name), Lit(" failed: ", 9)>>
               \o (IF d.error.len = 0 THEN << >>
                   ELSE <<[id |-> d.error.id, len |-> Min(d.error.len, 50)]>>),
     description |->
         <<Lit("Test '", 6), FmtName(d.test_name), Lit("' failed with error: ", 21)>>
         \o (IF d.error.len = 0 THEN << >> ELSE <<d.error>>)
         \o <<Lit(". Stack trace: ", 15)>>
         \o (IF d.stack_trace.len = 0 THEN << >> ELSE <<d.stack_trace>>),
     severity |-> IF d.error.id = "HTTP 500 Internal Server Error"
                  THEN "High" ELSE "Medium"]

\* C11: when the LLM call inside summarize_failure raises or its reply cannot
\* be parsed, summarize_failure returns the synthesized summary (title
\* '<test_name> failed: <first 50 characters of error>', description naming
\* test, error and stack trace, severity 'High' if the error contains '500'
\* and 'Medium' otherwise), and the handler goes on to put_item and the JIRA
\* request with that summary; the failed summarization is not answered 500.
C11_FallbackSummaryUsed ==
    \A p \in DefectProcs :
        LET d == dfct[p]
        IN  d.llm \in {"raise", "unparsable"} =>
                /\ d.summary = SynthesizedSummary(d)
                /\ d.item.summary = d.summary.title
                /\ d.item.description = d.summary.description
                /\ d.item.severity = d.summary.severity
                /\ d.calls[Len(d.calls)] # "llm" \/ d.pc = "put_item"
                /\ d.status = 200 =>
                       /\ d.calls = <<"scan", "similarity_search", "llm",
                                      "put_item", "jira">>
                       /\ d.item \in defectTable
                       /\ d.body.defect = d.item

\* a report whose summarization failed was stored and answered 200 with the
\* synthesized summary of a long error text containing '500'
C11_Witness ==
    /\ dfct[1].pc = "done"
    /\ dfct[1].llm = "raise"
    /\ dfct[1].status = 200
    /\ dfct[1].error = Text("HTTP 500 Internal Server Error", 80)
    /\ dfct[1].item.severity = "High"
    /\ dfct[1].item \in defectTable

\* a chunk of the index names this key and this ETag
HasChunk(idx, key, etag) == \E d \in idx : d.source = key /\ d.etag = etag

\* the chunks of a source in the index
ChunksOfSource(idx, key) == {d \in idx : d.source = key}

\* the operations of the current run that name key
OpsOn(key) == {pre.calls[k][1] : k \in {j \in DOMAIN pre.calls : pre.calls[j][2] = key}}

\* a run of process_s3_files of the opensearch script
OsRun == handler = "opensearch" /\ pre.branch = "s3" /\ pre.pc \in {"files", "done"}

\* a file whose key and current ETag were on a chunk when the run began is
\* skipped: at most the search is made for it, its chunks stay as they were
SkippedWhenIndexed ==
    OsRun =>
        \A key \in DOMAIN pre.etags :
            HasChunk(pre.before, key, pre.etags[key]) =>
                /\ OpsOn(key) \subseteq {"search"}
                /\ ChunksOfSource(osIndex, key) = ChunksOfSource(pre.before, key)

Reindexed(key) == "delete_by_query" \in OpsOn(key) /\ ~pre.escaped

\* C13: when process_s3_files handles a supported file whose current ETag is
\* not in the index, then after the run every chunk in the index with that
\* file as source carries the file's current ETag: the chunks of the previous
\* version are gone and the chunks of the new version are present.
C13_NewVersionIndexed ==
    (OsRun /\ pre.pc = "done") =>
        \A key \in DOMAIN pre.etags :
            (/\ Ext(key) \in Supported("opensearch")
             /\ ~HasChunk(pre.before, key, pre.bucketAt[key])
             /\ Reindexed(key)) =>
                /\ \A d \in ChunksOfSource(osIndex, key) : d.etag = pre.bucketAt[key]
                /\ ChunksOfSource(osIndex, key) \cap pre.before = {}
                /\ ChunksOfSource(osIndex, key) # {}

\* C14: on an S3-triggered invocation the opensearch preprocessing examines
\* only the keys named in the event's Records; no other object of the bucket
\* is listed, queried, deleted, downloaded or indexed in that invocation.
C14_OnlyEventKeys ==
    (handler = "opensearch" /\ pre.entry = "main" /\ pre.event.kind = "s3") =>
        /\ \A k \in DOMAIN pre.calls :
               pre.calls[k][2] \in {""} \cup {pre.event.keys[j] : j \in DOMAIN pre.event.keys}
        /\ \A key \in PreKeySet \ {pre.event.keys[j] : j \in DOMAIN pre.event.keys} :
               ChunksOfSource(osIndex, key) = ChunksOfSource(pre.before, key)

\* the kinds of source the current run has worked on
S3Worked ==
    \E k \in DOMAIN pre.calls :
        pre.calls[k][1] \in {"list_objects_v2", "search", "get_object", "upsert",
                             "from_documents", "delete_by_query"}
        /\ pre.calls[k][2] \notin {PreUrls[j] : j \in DOMAIN PreUrls}
WebWorked ==
    \E k \in DOMAIN pre.calls : pre.calls[k][1] = "requests.get"

\* C15: each invocation of a preprocessing handler works on exactly one kind
\* of source: the S3 documents when the event is a dict with 'Records' whose
\* first record has an 's3' key, the configured web pages for every other
\* event (no event included); never both kinds and never neither.
C15_ExactlyOneSourceKind ==
    (pre.entry = "main" /\ pre.pc = "done") =>
        IF pre.event.kind = "s3"
        THEN S3Worked /\ ~WebWorked
        ELSE WebWorked /\ ~S3Worked

\* C16: one run of the self-healing script executes the test at most twice
\* and calls the healing Lambda at most once; the second execution happens
\* only if the first one failed and the Lambda's reply carried a new_locator
\* containing a comma; after a failed second execution no further request or
\* execution follows.
C16_TryOnceRetryOnce ==
    /\ Count(heal.calls, "run_test") <= 2
    /\ Count(heal.calls, "post") <= 1
    /\ Count(heal.calls, "run_test") = 2 =>
           /\ heal.error # ""
           /\ Pos(heal.calls, "run_test") < Pos(heal.calls, "post")
           /\ heal.reply.kind = "body"
           /\ heal.reply.new_locator \in {",", "By.NAME, btnK"}
    /\ heal.rerun_result \in {"context", "raise"} =>
           /\ heal.pc = "done"
           /\ heal.calls = <<"run_test", "post", "run_test">>

\* the test failed, the Lambda suggested a locator and the re-run failed too
C16_Witness ==
    /\ heal.pc = "done"
    /\ heal.outcome = "still_failed"
    /\ heal.reply.new_locator = "By.NAME, btnK"
    /\ heal.calls = <<"run_test", "post", "run_test">>

\* C17: a suggested fix is stored in the fixes knowledge base only after the
\* re-run with the suggested locator passed; a failed re-run, a locator that
\* cannot be parsed or applied, or a reply without locator never leads to a
\* save_fix call; an exception raised by save_fix does not change the outcome
\* of the run.
C17_FixSavedOnlyAfterPass ==
    /\ Count(heal.calls, "save_fix") <= 1
    /\ Count(heal.calls, "save_fix") = 1 =>
           /\ heal.rerun_result = "True"
           /\ heal.calls = <<"run_test", "post", "run_test", "save_fix">>
           /\ heal.outcome = "healed" /\ ~heal.escaped
    /\ \A f \in heal.store :
           f.id = heal.run => Count(heal.calls, "save_fix") = 1
    /\ (heal.pc = "done" /\ heal.rerun_result = "True") =>
           heal.outcome = "healed" /\ ~heal.escaped

\* the re-run passed and save_fix raised: the run ends healed, nothing stored
C17_Witness ==
    /\ heal.pc = "done"
    /\ heal.outcome = "healed"
    /\ heal.calls = <<"run_test", "post", "run_test", "save_fix">>
    /\ heal.store = {}

\* the invocations of the handlers: their failed calls, their calls, and
\* whether they ended with an error (a 500 response, or an exception that
\* leaves the handler, which Lambda reports as a function error)
Invocations ==
    IF handler # "off"
    THEN {[h |-> "chat", pc |-> inv[p].pc, failed |-> inv[p].failed,
           calls |-> inv[p].calls, status |-> inv[p].status,
           error |-> inv[p].status = 500 \/ inv[p].escaped] : p \in Procs}
    ELSE IF gen.pc # "off"
    THEN {[h |-> "generator", pc |-> gen.pc, failed |-> gen.failed,
           calls |-> gen.calls, status |-> gen.status,
           error |-> gen.status = 500 \/ gen.escaped]}
    ELSE {[h |-> "defect", pc |-> dfct[p].pc, failed |-> dfct[p].failed,
           calls |-> dfct[p].calls, status |-> dfct[p].status,
           error |-> dfct[p].status = 500] : p \in DefectProcs}

\* the k-th failed call of r ended the invocation with an error
EndedBy(r, k) ==
    /\ k = Len(r.failed)
    /\ r.pc = "done"
    /\ r.calls # << >> /\ r.calls[Len(r.calls)] = r.failed[k]
    /\ r.error

\* the failures a handler replaces by a value and goes on
ReplacedFailures(h) ==
    CASE h = "chat" -> {"google_search"}
      [] h = "generator" -> {"retrieve_kb", "get_history", "save_history"}
      [] OTHER -> {"llm", "jira_status"}

IsClean(chunk) ==
    /\ \A k \in DOMAIN chunk : chunk[k].cls \in {"w", "s"} /\ chunk[k].n >= 1
    /\ \A k \in DOMAIN chunk : chunk[k].cls = "s" =>
           /\ chunk[k].n = 1
           /\ k # 1 /\ k # Len(chunk)
           /\ chunk[k + 1].cls # "s"

\* the entry the index check script accepts
GoodEntry(e) ==
    /\ e.chunk # << >> /\ TextLen(e.chunk) >= 1 /\ TextLen(e.chunk) <= 500
    /\ IsClean(e.chunk)
    /\ e.embedding # NoEmbedding /\ e.embedding[1] = "embedding"
    /\ e.source \in {"a.txt"} \cup {KbUrls[k] : k \in DOMAIN KbUrls}

\* C19: every entry the script writes to kb_index.json has a non-empty cleaned
\* chunk of at most 500 characters, a non-null embedding and a source; a chunk
\* whose embedding could not be obtained is left out; kb_index.json is
\* overwritten only when the run produced at least one entry.
C19_IndexEntriesWellFormed ==
    /\ \A k \in DOMAIN kbi.kb_index : GoodEntry(kbi.kb_index[k])
    /\ kbi.kb_index = SelectSeq(kbi.tried, LAMBDA t : t.embedding # NoEmbedding)
    /\ Count(kbi.calls, "put_object") <= 1
    /\ Count(kbi.calls, "put_object") = 1 =>
           kbi.pc = "done" /\ kbi.kb_index # << >> /\ ~kbi.escaped
    /\ kbi.stored \in {<< >>, OldIndex, kbi.kb_index}
    /\ kbi.stored \notin {<< >>, OldIndex} =>
           /\ Count(kbi.calls, "put_object") = 1
           /\ \A k \in DOMAIN kbi.stored : GoodEntry(kbi.stored[k])

\* a run that wrote an index of a 500-character chunk and a cleaned chunk, with
\* one chunk left out for want of an embedding
C19_Witness ==
    /\ kbi.pc = "done"
    /\ kbi.stored = kbi.kb_index
    /\ \E k \in DOMAIN kbi.stored : TextLen(kbi.stored[k].chunk) = 500
    /\ \E k \in DOMAIN kbi.stored : TextLen(kbi.stored[k].chunk) = 496
    /\ \E k \in DOMAIN kbi.tried : kbi.tried[k].embedding = NoEmbedding

\* the history part of the prompt of invocation i: the last 10 turns at most
\* of the history it read, oldest first, each as User and Bot lines
PromptWindow(i) ==
    LET h == i.history_read
        m == IF Len(h) < 10 THEN Len(h) ELSE 10
    IN  /\ Len(i.history_text) = m
        /\ \A j \in 1..m :
             i.history_text[j] =
                <<Lit("User: ", 6), h[Len(h) - m + j].user,
                  Lit("\nBot: ", 6), h[Len(h) - m + j].bot, Lit("\n", 1)>>

\* what invocation i has read is what is stored, and a 200 leaves one more turn
HistoryKept(i) ==
    /\ (i.pc \in {"claude", "save_history"} /\ handler # "simple") =>
           i.history_read = historyTable[i.session_id]
    /\ (i.status = 200 /\ handler # "simple") =>
           historyTable[i.session_id] =
               i.history_read \o <<[user |-> i.prompt, bot |-> i.response_text]>>

C21_ETagChangeDetection ==
    \A k \in DOMAIN proj.log :
        LET e == proj.log[k]
        IN  /\ e.before # "<absent>" => e.sent = e.before
            /\ (e.answer.kind = "response" /\ e.answer.status = 200) =>
                   /\ e.n1 = e.n0 + 1
                   /\ e.answer.etag # "<None>" => e.after = e.answer.etag
            /\ ~(e.answer.kind = "response" /\ e.answer.status = 200) =>
                   e.n1 = e.n0 /\ e.after = e.before

\* the attempt that ended a get_embedding call on an error that is no throttling
FatalOutcome(outcomes) ==
    /\ outcomes # << >>
    /\ outcomes[Len(outcomes)] \notin {"ok", "ThrottlingException"}

StoredChunks(source) == {<<v.id[3], v.chunk>> : v \in {w \in pineIndex : w.source = source}}
ContentChunks(source) ==
    LET cs == PineChunks(pine.content[source])
    IN  {<<cs[k].i, cs[k].chunk>> : k \in DOMAIN cs}

\* C24: after the Pinecone preprocessing has processed a source, the vectors
\* stored under the ids '<source>:<i>' are exactly the chunks of the source's
\* current content: unchanged content rewrites the same ids with the same
\* chunks, and after a change no vector of the earlier content remains.  It is
\* stated for the sources that hold text and all of whose chunks were embedded
\* and upserted.
C24_IndexMirrorsContent ==
    pine.pc = "done" =>
        \A q \in pine.processed :
            (pine.clean[q] /\ pine.content[q] # << >>) =>
                StoredChunks(q) = ContentChunks(q)

\* a locator written at position p of the text s as By.<TYPE>, '<VALUE>' or
\* By.<TYPE>, "<VALUE>": the value stands between two quotes of the same kind
WrittenAt(s, p) ==
    LET t  == p + 3
        nt == RunIn(s, t, WordChars)
        a  == t + nt + RunIn(s, t + nt, SpaceChars)
        b  == a + 1 + RunIn(s, a + 1, SpaceChars)
        v  == b + 1
        nv == RunIn(s, v, Chars \ {s[b]})
        e  == v + nv
    IN  IF /\ p + 2 <= Len(s)
           /\ SubSeq(s, p, p + 2) = <<"B", "y", ".">>
           /\ nt >= 1
           /\ a <= Len(s) /\ s[a] = ","
           /\ b <= Len(s) /\ s[b] \in QuoteChars
           /\ nv >= 1
           /\ e <= Len(s)
        THEN [ok |-> TRUE, type |-> SubSeq(s, t, t + nt - 1),
              value |-> SubSeq(s, v, e - 1)]
        ELSE NoMatch

\* the leftmost locator written in the text s
LeftmostWritten(s) ==
    LET ps == {p \in 1..Len(s) : WrittenAt(s, p).ok}
    IN  IF ps = {} THEN NoMatch
        ELSE WrittenAt(s, CHOOSE p \in ps : \A o \in ps : p <= o)

\* C23: when the Lambda answered and the script is through with the answer,
\* a reply that contains a locator written as By.<TYPE>, '<VALUE>' or
\* By.<TYPE>, "<VALUE>" gave the leftmost such locator normalised to
\* By.<TYPE>, "<VALUE>", and the script ran the test again with exactly the
\* pair (<TYPE>, <VALUE>), also when the value has commas; a reply without
\* such a locator gave None and no re-run.
C23_LocatorRoundTrip ==
    (loc.pc = "done" /\ loc.status = 200) =>
        LET w == LeftmostWritten(loc.suggestion)
        IN  IF w.ok
            THEN /\ loc.new_locator = FormatLocator(w.type, w.value)
                 /\ loc.reran
                 /\ loc.by = w.type /\ loc.value = w.value
            ELSE loc.new_locator = NoLocator /\ ~loc.reran

\* the invocation d has sent its request to JIRA
JiraRequested(d) == \E k \in DOMAIN d.calls : d.calls[k] = "jira"

\* C25: also when two invocations that report the same failure interleave
\* between the duplicate scan and the put_item, the defect table holds at most
\* one item per (test_name, error) pair and at most one of the invocations
\* requests a JIRA issue for the pair.
C25_OneDefectPerPairWhenInterleaved ==
    /\ UniquePairs
    /\ \A p, q \in DefectProcs :
         (/\ p # q
          /\ dfct[p].test_name = dfct[q].test_name
          /\ dfct[p].error = dfct[q].error
          /\ JiraRequested(dfct[p])) => ~JiraRequested(dfct[q])

\* what C26 says of the invocation d up to the answer to a re-submission
StoredBeforeJira(d) ==
    /\ (d.pc = "jira" \/ JiraRequested(d)) =>
           /\ d.item \in defectTable
           /\ d.calls[Len(SelectSeq(d.calls, LAMBDA c : c # "jira"))] = "put_item"
    /\ (d.pc = "done" /\ JiraRequested(d) /\ d.raised = "") =>
           /\ d.status = 200
           /\ d.body.message = "Defect logged"
           /\ d.body.defect = d.item
           /\ (\E k \in DOMAIN d.failed : d.failed[k] = "jira_status") =>
                  d.body.jira_result = [error |-> "rejected", status |-> 400]
    /\ (d.pc = "done" /\ JiraRequested(d) /\ d.raised # "") =>
           d.status = 500 /\ d.body = [error |-> d.raised]
    /\ d.stored # {} =>
           /\ \A k \in DOMAIN d.calls : d.calls[k] = "scan"
           /\ d.stored \subseteq defectTable

\* C26 as stated: the item is stored before the JIRA request and never
\* removed; a JIRA answer other than 201 gives 200 'Defect logged' with the
\* error in jira_result, a raising JIRA request gives 500, the item stays in
\* both cases, and a later re-submission of the same failure is answered as a
\* duplicate without a new JIRA request.
C26_ResubmissionAnsweredDuplicate ==
    \A p \in DefectProcs :
        /\ StoredBeforeJira(dfct[p])
        /\ (dfct[p].stored # {} /\ dfct[p].pc = "done") => AnsweredDuplicate(dfct[p])

\* the same with the answer to the re-submission told apart by the scan
C26_AfterStep ==
    \A p \in DefectProcs :
        /\ StoredBeforeJira(dfct[p])
        /\ (dfct[p].stored # {} /\ dfct[p].pc = "done" /\ dfct[p].raised = "") =>
               AnsweredDuplicate(dfct[p])
        /\ (dfct[p].stored # {} /\ dfct[p].pc = "done" /\ dfct[p].raised # "") =>
               dfct[p].status = 500 /\ dfct[p].body = [error |-> dfct[p].raised]

\* C26 amended: no step of the defect agent removes an item from the table;
\* the item is stored before the JIRA request; a JIRA answer other than 201
\* gives 200 'Defect logged' with the error in jira_result, a raising JIRA
\* request gives 500, the item stays in both cases, and a later re-submission
\* of the same failure causes no new JIRA request: it is answered as a
\* duplicate when its scan returns and with 500 when its scan raises.
C26_ItemStaysAfterJiraFailure ==
    [][defectTable \subseteq defectTable' /\ C26_AfterStep']_vars

\* JIRA rejected the issue of one invocation, or its request raised, and a
\* later invocation with the same failure was answered as a duplicate
C26_Witness ==
    \E p, q \in DefectProcs :
        /\ dfct[p].pc = "done" /\ JiraRequested(dfct[p])
        /\ dfct[p].failed # << >>
        /\ dfct[p].failed[Len(dfct[p].failed)] \in {"jira", "jira_status"}
        /\ dfct[q].pc = "done"
        /\ dfct[p].item \in dfct[q].stored
        /\ AnsweredDuplicate(dfct[q])

====
